---- MODULE Spec2Model ----
(***************************************************************************)
(* Verification model of redis-rust-copy: the adaptive integer set         *)
(* (src/src/int_set.rs), the compact byte buffer (src/src/sds.rs), the     *)
(* doubly linked list (src/src/ad_list.rs) and the allocator adapter       *)
(* (src/src/z_malloc.rs).                                                  *)
(***************************************************************************)
EXTENDS Integers, Sequences, FiniteSets, TLC

VARIABLES
    EMPTY_SET,    \* the static IntSetInner shared by every IntSet::new()
    set,          \* IntSet.0: "EMPTY_SET" (aliases the static) or "heap"
    block,        \* the heap IntSetInner the set owns when set = "heap"
    last,         \* the last IntSet call: [op, value, result]
    fault,        \* "none", or how the process died: "segv" or "panic"
    inserted,     \* history: the values inserted so far (distinct-insert runs)
    EMPTY_HDR,    \* the static SdsHdr8 shared by every empty Sds
    heap,         \* the storage blocks of the buffers, by address
    sds,          \* Sds.0 of each buffer: "none", "EMPTY_HDR" or a block address
    expect,       \* history: the bytes each buffer was given, in order
    calls,        \* history: the number of buffer calls made
    hdrStores,    \* history: a store has been made into EMPTY_HDR
    mem,          \* the list nodes, by address: [prev, next, value] or NoNode
    lists,        \* each List: [head, tail, len], or "none" before new / after drop
    valueType,    \* the T of List<T>: "plain" (free does nothing) or "ptr"
    released,     \* history: the values whose free hook released their resource
    listLast,     \* history: the last list call and the values it invoked the
                  \* free hook on, in order
    badFree,      \* history: z_free has been called on a node that was not allocated
    target_os     \* the cfg(target_os) of the build: "linux_or_macos" or "other"

isVars == <<EMPTY_SET, set, block, last>>

sdsVars == <<EMPTY_HDR, heap, sds, expect, calls, hdrStores>>

listVars == <<mem, lists, valueType, released, listLast, badFree>>

vars == <<isVars, fault, inserted, sdsVars, listVars, target_os>>

(***************************************************************************)
(* 64-bit integers.  TLC's integers are 32 bits wide, so an i64 is kept as *)
(* <<hi, lo>> with value hi * 2^16 + lo and 0 <= lo < 2^16.                *)
(***************************************************************************)
Limb == 65536

I64(n) == <<n \div Limb, n % Limb>>

Lt(a, b) == a[1] < b[1] \/ (a[1] = b[1] /\ a[2] < b[2])

Gt(a, b) == Lt(b, a)

Le(a, b) == ~Lt(b, a)

Zero == I64(0)

I16_MIN == I64(-32768)

I16_MAX == I64(32767)

I32_MIN == <<-32768, 0>>

I32_MAX == <<32767, 65535>>

\* `v as i16`: keep the low 16 bits, read them as a signed number
AsI16(v) == IF v[2] >= 32768 THEN <<-1, v[2]>> ELSE <<0, v[2]>>

\* `v as i32`: keep the low 32 bits, read them as a signed number
AsI32(v) == LET h == v[1] % Limb IN <<IF h >= 32768 THEN h - Limb ELSE h, v[2]>>

(***************************************************************************)
(* Encoding: the enum's discriminant is the element width in bytes.        *)
(***************************************************************************)
INT16 == 2

INT32 == 4

INT64 == 8

U16_MAX == 65535

\* size_of::<IntSetInner>(): encoding (1 byte + 1 padding), len u16, alloc u16
SizeOfIntSetInner == 6

value_encoding(v) ==
    IF Lt(v, I32_MIN) \/ Gt(v, I32_MAX) THEN INT64
    ELSE IF Lt(v, I16_MIN) \/ Gt(v, I16_MAX) THEN INT32
    ELSE INT16

byte_size(enc) == enc

\* `value as T` for the element type T of an encoding
CastTo(enc, v) == IF enc = INT16 THEN AsI16(v) ELSE IF enc = INT32 THEN AsI32(v) ELSE v

(***************************************************************************)
(* Bounds and inputs of the integer-set model.                             *)
(***************************************************************************)
MaxSetLen == 5

\* 16-bit values, the two nearest 32-bit values (i16::MIN - 1, i16::MAX + 1) and
\* the two nearest 64-bit ones (i32::MAX + 1, i32::MIN - 1)
SetValues ==
    { I64(1), I64(2), I64(3), I64(-32769), I64(32768), <<32768, 0>>, <<-32769, 65535>> }

\* 16-bit values only: a set of these never leaves the 16-bit encoding
SmallValues == { I64(-7), I64(1), I64(2), I64(3), I64(5) }

AllValues == SetValues \cup SmallValues

(***************************************************************************)
(* Allocator adapter.                                                      *)
(***************************************************************************)
\* malloc_usable_size of a glibc block: the request rounded up to the chunk size
GlibcUsable(size) ==
    LET chunk == ((size + 8 + 15) \div 16) * 16
    IN  (IF chunk < 32 THEN 32 ELSE chunk) - 8

\* the builds the allocator adapter distinguishes
TargetOs == { "linux_or_macos", "other" }

\* z_try_malloc_usable: the usable size reported for a block of `size` bytes is
\* malloc_usable_size on linux/macos and the request itself elsewhere
z_malloc_usable(size) ==
    IF target_os = "linux_or_macos" THEN { GlibcUsable(size) } ELSE { size }

\* z_realloc_usable reports the requested size
z_realloc_usable(size) == size

(***************************************************************************)
(* Integer set: reads.                                                     *)
(***************************************************************************)
is_global_empty == set = "EMPTY_SET"

\* inner_ref(): the IntSetInner the handle points to, with its element array
inner_ref ==
    IF is_global_empty
    THEN [encoding |-> EMPTY_SET.encoding, len |-> EMPTY_SET.len,
          alloc |-> EMPTY_SET.alloc, contents |-> <<>>]
    ELSE block

RECURSIVE typed_search_loop(_, _, _, _, _)
typed_search_loop(contents, value, min, max, mid) ==
    IF max >= min
    THEN LET m == (min + max) \div 2
             mid_value == contents[m + 1]
         IN  IF Gt(value, mid_value) THEN typed_search_loop(contents, value, m + 1, max, m)
             ELSE IF Lt(value, mid_value) THEN typed_search_loop(contents, value, min, m - 1, m)
             ELSE <<TRUE, m>>
    ELSE <<FALSE, mid>>

\* <<found, pos>>; indices are 0-based as in the code, contents[i + 1] is element i
typed_search(inner, value) ==
    LET max == inner.len - 1
    IN  IF Gt(value, inner.contents[max + 1]) THEN <<FALSE, inner.len>>
        ELSE IF Lt(value, inner.contents[1]) THEN <<FALSE, 0>>
        ELSE typed_search_loop(inner.contents, value, 0, max, 0)

search(inner, value) ==
    IF inner.len = 0 THEN <<FALSE, 0>>
    ELSE typed_search(inner, CastTo(inner.encoding, value))

contain(inner, value) ==
    IF value_encoding(value) > inner.encoding THEN FALSE
    ELSE search(inner, value)[1]

len(inner) == inner.len

(***************************************************************************)
(* Integer set: element moves.  An element array is a sequence; a write    *)
(* past its end lands in the slack that resize has just provided.          *)
(***************************************************************************)
\* ptr::copy_to (memmove) of `count` elements from index src to index dst
copy_to(contents, src, dst, count) ==
    LET n == IF dst + count > Len(contents) THEN dst + count ELSE Len(contents)
    IN  [i \in 1..n |->
            IF dst < i /\ i <= dst + count THEN contents[i - dst + src] ELSE contents[i]]

\* *ptr.offset(pos) = value
store(contents, pos, value) ==
    LET n == IF pos + 1 > Len(contents) THEN pos + 1 ELSE Len(contents)
    IN  [i \in 1..n |-> IF i = pos + 1 THEN value ELSE contents[i]]

\* the first `n` elements: the part of the array the length field makes readable
live(contents, n) == SubSeq(contents, 1, n)

(***************************************************************************)
(* Integer set: writes.  Each operator maps the IntSetInner the handle     *)
(* points to (header fields and element array) to the one it leaves.       *)
(***************************************************************************)
resize_size(inner, n) == n * byte_size(inner.encoding)

\* an oversize test that lets the header's bytes through
resize_oversize_with_header(inner, n) == resize_size(inner, n) > U16_MAX + SizeOfIntSetInner

\* resize panics when the byte size does not fit the 16-bit capacity field
resize_oversize(inner, n) == resize_size(inner, n) > U16_MAX

\* a resize that grows only once a whole element no longer fits
resize_grows_past_one(inner, n) ==
    resize_size(inner, n) > inner.alloc + byte_size(inner.encoding)

resize_grows(inner, n) == resize_size(inner, n) > inner.alloc

\* the usable sizes the allocator may report to resize: a fresh block for a
\* handle that aliases the static, a reallocation of the owned block otherwise
resize_usable(inner, n) ==
    IF is_global_empty
    THEN z_malloc_usable(resize_size(inner, n) + SizeOfIntSetInner)
    ELSE { z_realloc_usable(resize_size(inner, n) + SizeOfIntSetInner) }

\* the header after resize(n); the header and the elements are carried over
\* (copied from the static, or kept by realloc)
resize(inner, n, usable) ==
    IF resize_grows(inner, n)
    THEN [inner EXCEPT !.alloc = (usable - SizeOfIntSetInner) % (U16_MAX + 1)]
    ELSE inner

\* elements are converted from the last index to the first; the wide writes
\* never reach a narrow element that is still to be read
move_one_by_one_then_put(from, size, value, prepend) ==
    IF prepend
    THEN [i \in 1..(size + 1) |-> IF i = 1 THEN value ELSE from[i - 1]]
    ELSE [i \in 1..(size + 1) |-> IF i = size + 1 THEN value ELSE from[i]]

upgrade_and_add(inner, value, value_enc, usable) ==
    LET current_len == inner.len
        widened == resize([inner EXCEPT !.encoding = value_enc], current_len + 1, usable)
        prepend == Lt(value, Zero)
    IN  [widened EXCEPT
            !.contents = move_one_by_one_then_put(inner.contents, current_len,
                                                  CastTo(value_enc, value), prepend),
            !.len = current_len + 1]

put_one(inner, pos, value, need_move) ==
    LET moved == IF need_move
                 THEN copy_to(inner.contents, pos, pos + 1, inner.len - pos)
                 ELSE inner.contents
    IN  [inner EXCEPT !.contents = store(moved, pos, value), !.len = inner.len + 1]

\* insert of a value whose encoding fits the set's: <<inner after, returned>>
insert(inner, value, usable) ==
    LET found == search(inner, value)
        pos == found[2]
        need_move == pos < inner.len
    IN  IF found[1] THEN <<inner, FALSE>>
        ELSE <<put_one(resize(inner, inner.len + 1, usable), pos,
                       CastTo(inner.encoding, value), need_move), TRUE>>

\* a remove_at that also re-encodes the set at INT16 once it is empty
remove_at_narrowing(inner, pos) ==
    LET last_idx == inner.len - 1
        shifted == IF pos < last_idx
                   THEN copy_to(inner.contents, 1, 0, last_idx - pos)
                   ELSE inner.contents
    IN  [inner EXCEPT !.contents = shifted, !.len = inner.len - 1,
                      !.encoding = IF inner.len = 1 THEN INT16 ELSE inner.encoding]

\* remove, once the value has been found at index pos: the tail shift (which
\* the code starts at element 1, not at pos + 1), the resize and the new length
remove_at(inner, pos) ==
    LET last_idx == inner.len - 1
        shifted == IF pos < last_idx
                   THEN copy_to(inner.contents, 1, 0, last_idx - pos)
                   ELSE inner.contents
        kept == resize([inner EXCEPT !.contents = shifted], inner.len - 1,
                       z_realloc_usable(resize_size(inner, inner.len - 1) + SizeOfIntSetInner))
    IN  [kept EXCEPT !.len = inner.len - 1]

\* <<inner after, returned>>
remove(inner, value) ==
    LET found == search(inner, value)
    IN  IF value_encoding(value) > inner.encoding THEN <<inner, FALSE>>
        ELSE IF ~found[1] THEN <<inner, FALSE>>
        ELSE <<remove_at(inner, found[2]), TRUE>>

\* what a read of memory the block does not own may give: some bits, or a fault
Unowned == { <<"Some", Zero>>, <<"Some", I64(-1)>>, <<"segv">> }

\* get_unchecked / get_with_encoded: the element read at contents.offset(index).
\* The array starts SizeOfIntSetInner bytes into the block, after alloc (2
\* bytes), which follows len (2 bytes): a negative index reads the header
\* fields, or memory before the block
get_unchecked(inner, index) ==
    IF index >= 0 THEN { <<"Some", inner.contents[index + 1]>> }
    ELSE IF inner.encoding = INT16 /\ index = -1 THEN { <<"Some", AsI16(I64(inner.alloc))>> }
    ELSE IF inner.encoding = INT16 /\ index = -2 THEN { <<"Some", AsI16(I64(inner.len))>> }
    ELSE IF inner.encoding = INT32 /\ index = -1
         THEN { <<"Some", AsI32(<<inner.alloc, inner.len>>)>> }
    ELSE Unowned

\* get(index): the bounds check is `index < len` only.  The outcomes of the call
get(inner, index) == IF index < inner.len THEN get_unchecked(inner, index) ELSE { <<"None">> }

random(inner) == get(inner, 0)

\* the buffer variables of a run that uses no buffer
SdsIdle ==
    /\ EMPTY_HDR = [len |-> 0, alloc |-> 0, flags |-> 1]
    /\ heap = <<>>
    /\ sds = <<>>
    /\ expect = <<>>
    /\ calls = 0
    /\ hdrStores = FALSE

\* the list variables of a run that uses no list
ListIdle ==
    /\ mem = <<>>
    /\ lists = <<>>
    /\ valueType = "plain"
    /\ released = {}
    /\ listLast = [op |-> "none", hooked |-> <<>>]
    /\ badFree = FALSE

(***************************************************************************)
(* Integer set: the state machine of one handle.                           *)
(***************************************************************************)
NoBlock == [encoding |-> 0, len |-> 0, alloc |-> 0, contents |-> <<>>]

\* the block as the handle can read it: the elements below the length field
Settled(inner) == [inner EXCEPT !.contents = live(inner.contents, inner.len)]

\* a finished call and what it returned: "true", "false", or how it died
Called(op, value, result) == [op |-> op, value |-> value, result |-> result]

Returned(b) == IF b THEN "true" ELSE "false"

IntSetInit ==
    /\ target_os \in TargetOs
    /\ EMPTY_SET = [encoding |-> INT16, len |-> 0, alloc |-> 0]
    /\ set = "EMPTY_SET"
    /\ block = NoBlock
    /\ last = Called("new", Zero, "true")
    /\ fault = "none"
    /\ inserted = {}
    /\ SdsIdle
    /\ ListIdle

\* insert(value) with a value wider than the set's encoding.  upgrade_and_add
\* stores the new encoding through the handle before it resizes; for a handle
\* that aliases EMPTY_SET that store goes into the immutable static
InsertUpgradeCall(value) ==
    LET inner == inner_ref
        value_enc == value_encoding(value)
    IN  /\ fault = "none"
        /\ value_enc > inner.encoding
        /\ IF resize_oversize([inner EXCEPT !.encoding = value_enc], inner.len + 1)
           THEN /\ fault' = "panic"
                /\ last' = Called("insert", value, "panic")
                /\ EMPTY_SET' = IF is_global_empty
                                THEN [EMPTY_SET EXCEPT !.encoding = value_enc] ELSE EMPTY_SET
                /\ block' = IF is_global_empty THEN block
                            ELSE [block EXCEPT !.encoding = value_enc]
                /\ set' = set
           ELSE \E usable \in resize_usable([inner EXCEPT !.encoding = value_enc], inner.len + 1) :
                /\ EMPTY_SET' = IF is_global_empty
                                THEN [EMPTY_SET EXCEPT !.encoding = value_enc] ELSE EMPTY_SET
                /\ block' = Settled(upgrade_and_add(inner, value, value_enc, usable))
                /\ set' = "heap"
                /\ last' = Called("insert", value, "true")
                /\ fault' = fault

\* the call on a set of fewer than MaxSetLen elements
InsertUpgrade(value) == inner_ref.len < MaxSetLen /\ InsertUpgradeCall(value)

\* the same call when the store into the static faults: statics without interior
\* mutability live in read-only memory
InsertUpgradeFault(value) ==
    /\ fault = "none"
    /\ inner_ref.len < MaxSetLen
    /\ value_encoding(value) > inner_ref.encoding
    /\ is_global_empty
    /\ fault' = "segv"
    /\ last' = Called("insert", value, "segv")
    /\ UNCHANGED <<EMPTY_SET, set, block>>

InsertFitCall(value) ==
    LET inner == inner_ref
    IN  /\ fault = "none"
        /\ value_encoding(value) <= inner.encoding
        /\ IF ~search(inner, value)[1] /\ resize_oversize(inner, inner.len + 1)
           THEN /\ fault' = "panic"
                /\ last' = Called("insert", value, "panic")
                /\ UNCHANGED <<EMPTY_SET, set, block>>
           ELSE \E usable \in resize_usable(inner, inner.len + 1) :
                LET done == insert(inner, value, usable)
                IN  /\ block' = IF done[2] THEN Settled(done[1]) ELSE block
                    /\ set' = IF done[2] THEN "heap" ELSE set
                    /\ last' = Called("insert", value, Returned(done[2]))
                    /\ UNCHANGED <<EMPTY_SET, fault>>

\* the call on a set of fewer than MaxSetLen elements
InsertFit(value) == inner_ref.len < MaxSetLen /\ InsertFitCall(value)

Insert(value) == InsertUpgrade(value) \/ InsertUpgradeFault(value) \/ InsertFit(value)

Remove(value) ==
    LET done == remove(inner_ref, value)
    IN  /\ fault = "none"
        /\ block' = IF done[2] THEN Settled(done[1]) ELSE block
        /\ last' = Called("remove", value, Returned(done[2]))
        /\ UNCHANGED <<EMPTY_SET, set, fault>>

\* drop the handle (the block is freed unless the handle aliases the static)
\* and take a new one from IntSet::new()
New ==
    /\ fault = "none"
    /\ set' = "EMPTY_SET"
    /\ block' = NoBlock
    /\ last' = Called("new", Zero, "true")
    /\ UNCHANGED <<EMPTY_SET, fault>>

IntSetNext ==
    \/ \E value \in SetValues : Insert(value) /\ UNCHANGED <<inserted, sdsVars, listVars, target_os>>
    \/ \E value \in SetValues : Remove(value) /\ UNCHANGED <<inserted, sdsVars, listVars, target_os>>
    \/ New /\ UNCHANGED <<inserted, sdsVars, listVars, target_os>>

SpecIntSet == IntSetInit /\ [][IntSetNext]_vars

\* runs over 16-bit values: value_encoding never exceeds the set's encoding, so
\* every insert takes the search path
IntSet16Next ==
    \/ \E value \in SmallValues : InsertFit(value) /\ UNCHANGED <<inserted, sdsVars, listVars, target_os>>
    \/ \E value \in SmallValues : Remove(value) /\ UNCHANGED <<inserted, sdsVars, listVars, target_os>>
    \/ New /\ UNCHANGED <<inserted, sdsVars, listVars, target_os>>

SpecIntSet16 == IntSetInit /\ [][IntSet16Next]_vars

\* runs that only insert 16-bit values, each value at most once
InsertDistinct(value) ==
    /\ value \notin inserted
    /\ InsertFit(value)
    /\ inserted' = inserted \cup {value}
    /\ UNCHANGED <<sdsVars, listVars, target_os>>

IntSetDistinctNext == \E value \in SmallValues : InsertDistinct(value)

SpecIntSetDistinct == IntSetInit /\ [][IntSetDistinctNext]_vars

\* runs that start from a set filled by ascending inserts to within MaxShort
\* elements of the most the 16-bit capacity field admits at 8 bytes each,
\* U16_MAX / 8 elements: -7, -6, ... held as 16-bit elements, or behind
\* i16::MIN - 1 as 32-bit elements, or behind i32::MIN - 1 as 64-bit elements
FullLen == U16_MAX \div INT64

MaxShort == 2

AscendingFrom(first, n) == [i \in 1..n |-> I64(first + i - 1)]

FilledBlock(enc, n) ==
    [encoding |-> enc, len |-> n, alloc |-> n * byte_size(enc),
     contents |-> IF enc = INT64 THEN <<<<-32769, 65535>>>> \o AscendingFrom(-7, n - 1)
                  ELSE IF enc = INT32 THEN <<I64(-32769)>> \o AscendingFrom(-7, n - 1)
                  ELSE AscendingFrom(-7, n)]

IntSetFullInit ==
    /\ target_os \in TargetOs
    /\ EMPTY_SET = [encoding |-> INT16, len |-> 0, alloc |-> 0]
    /\ set = "heap"
    /\ \E enc \in {INT16, INT32, INT64}, n \in (FullLen - MaxShort)..FullLen :
           block = FilledBlock(enc, n)
    /\ last = Called("insert", block.contents[block.len], "true")
    /\ fault = "none"
    /\ inserted = {}
    /\ SdsIdle
    /\ ListIdle

\* a member, two non-members that fit 16 bits, a 32-bit and a 64-bit value
FullValues == { I64(-7), I64(-8), I64(9000), I64(32768), <<32768, 0>> }

IntSetFullNext ==
    \/ \E value \in FullValues :
           InsertUpgradeCall(value) /\ UNCHANGED <<inserted, sdsVars, listVars, target_os>>
    \/ \E value \in FullValues :
           InsertFitCall(value) /\ UNCHANGED <<inserted, sdsVars, listVars, target_os>>

SpecIntSetFull == IntSetFullInit /\ [][IntSetFullNext]_vars

(***************************************************************************)
(* Byte strings.  A byte string is kept as its runs, <<byte, count>> with  *)
(* count > 0 and neighbouring runs of different bytes, so that buffers of  *)
(* any length the header widths distinguish stay small values.             *)
(***************************************************************************)
RECURSIVE BLen(_)
BLen(r) == IF r = <<>> THEN 0 ELSE r[1][2] + BLen(Tail(r))

BCat(a, b) ==
    IF a = <<>> THEN b
    ELSE IF b = <<>> THEN a
    ELSE IF a[Len(a)][1] = b[1][1]
         THEN SubSeq(a, 1, Len(a) - 1) \o <<<<b[1][1], a[Len(a)][2] + b[1][2]>>>> \o Tail(b)
         ELSE a \o b

\* the first n bytes (all of them when there are fewer)
RECURSIVE BTake(_, _)
BTake(r, n) ==
    IF n <= 0 \/ r = <<>> THEN <<>>
    ELSE IF r[1][2] <= n THEN BCat(<<r[1]>>, BTake(Tail(r), n - r[1][2]))
    ELSE <<<<r[1][1], n>>>>

\* what follows the first n bytes
RECURSIVE BDrop(_, _)
BDrop(r, n) ==
    IF n <= 0 \/ r = <<>> THEN r
    ELSE IF r[1][2] <= n THEN BDrop(Tail(r), n - r[1][2])
    ELSE <<<<r[1][1], r[1][2] - n>>>> \o Tail(r)

\* the byte string of a sequence of bytes
RECURSIVE Str(_)
Str(bytes) == IF bytes = <<>> THEN <<>> ELSE BCat(<<<<bytes[1], 1>>>>, Str(Tail(bytes)))

\* [byte].repeat(n)
Rep(byte, n) == IF n = 0 THEN <<>> ELSE <<<<byte, n>>>>

\* ptr::copy_to of `data` to offset `off` of the payload `buf`
BWrite(buf, off, data) ==
    BCat(BCat(BTake(buf, off), data), BDrop(buf, off + BLen(data)))

(***************************************************************************)
(* Compact byte buffer: header layout.                                     *)
(***************************************************************************)
SDS_TYPE_8 == 1

SDS_TYPE_16 == 2

SDS_TYPE_32 == 3

SDS_TYPE_64 == 4

SDS_MAX_PRE_ALLOC == 1048576

\* size_of::<SdsHdr<T>>(), packed: len and alloc of width T and the flags byte
sds_hdr_size(sds_type) ==
    CASE sds_type = SDS_TYPE_8 -> 3
      [] sds_type = SDS_TYPE_16 -> 5
      [] sds_type = SDS_TYPE_32 -> 9
      [] sds_type = SDS_TYPE_64 -> 17

\* `string_size < 1 << 32` is written with the quotient: 2^32 exceeds TLC's integers
sds_req_type(string_size) ==
    IF string_size < 256 THEN SDS_TYPE_8
    ELSE IF string_size < 65536 THEN SDS_TYPE_16
    ELSE IF string_size \div 65536 < 65536 THEN SDS_TYPE_32
    ELSE SDS_TYPE_64

\* usable.min(sds_type_max_size(sds_type)); the 32- and 64-bit maxima lie above
\* every size TLC's integers can hold
min_type_max_size(usable, sds_type) ==
    IF sds_type = SDS_TYPE_8 THEN (IF usable < 255 THEN usable ELSE 255)
    ELSE IF sds_type = SDS_TYPE_16 THEN (IF usable < 65535 THEN usable ELSE 65535)
    ELSE usable

\* `n as T` for the field type T of a header
as_field(sds_type, n) ==
    IF sds_type = SDS_TYPE_8 THEN n % 256
    ELSE IF sds_type = SDS_TYPE_16 THEN n % 65536
    ELSE n

(***************************************************************************)
(* Compact byte buffer: bounds and inputs.                                 *)
(***************************************************************************)
MaxCalls == 4

Handles == {"s", "t"}

Blocks == {"b1", "b2", "b3"}

HiStr == Str(<<72, 105, 44, 32>>)

RedisStr == Str(<<114, 101, 100, 105, 115, 32>>)

RustStr == Str(<<114, 117, 115, 116, 46>>)

\* "Hi, ", "redis ", "rust.", the empty slice, and batches of nines that take a
\* buffer to the 16-bit and to the 32-bit header
Pieces == { <<>>, HiStr, RedisStr, RustStr, Rep(9, 1024), Rep(9, 40000) }

(***************************************************************************)
(* Compact byte buffer: reads.                                             *)
(***************************************************************************)
Free == [flags |-> 0, len |-> 0, alloc |-> 0, buf |-> <<>>]

sds_is_global_empty(h) == sds[h] = "EMPTY_HDR"

\* the header the handle's pointer leads to, and the payload behind it
hdr(h) ==
    IF sds_is_global_empty(h)
    THEN [flags |-> EMPTY_HDR.flags, len |-> EMPTY_HDR.len,
          alloc |-> EMPTY_HDR.alloc, buf |-> <<>>]
    ELSE heap[sds[h]]

type_code(h) == hdr(h).flags

sds_len(h) == hdr(h).len

sds_alloc(h) == hdr(h).alloc

avail(sh) == sh.alloc - sh.len

as_slice(h) == BTake(hdr(h).buf, sds_len(h))

Live(h) == sds[h] # "none"

\* the address malloc hands out: a block that is free
FreshBlock == CHOOSE b \in Blocks : heap[b] = Free

(***************************************************************************)
(* Compact byte buffer: writes, as maps from the header and payload a      *)
(* handle points to, to the ones the call leaves.                          *)
(***************************************************************************)
set_len_uncheck(sh, new_len) == [sh EXCEPT !.len = as_field(sh.flags, new_len)]

set_alloc_uncheck(sh, alloc) == [sh EXCEPT !.alloc = as_field(sh.flags, alloc)]

\* the payload below the length field: what as_slice can read
Readable(sh) == [sh EXCEPT !.buf = BTake(sh.buf, sh.len)]

\* from_raw_pointer for a non-empty init, in a block of `usable` bytes
from_raw_pointer(init, usable) ==
    LET init_len == BLen(init)
        sds_type == sds_req_type(init_len)
        hdr_size == sds_hdr_size(sds_type)
    IN  [flags |-> sds_type,
         len |-> as_field(sds_type, init_len),
         alloc |-> as_field(sds_type, min_type_max_size(usable - hdr_size, sds_type)),
         buf |-> init]

from_raw_pointer_total_size(init) == BLen(init) + sds_hdr_size(sds_req_type(BLen(init)))

\* a capacity that is doubled whatever the new length is
make_room_new_len_always_doubles(sh, inc_len) == (sh.len + inc_len) * 2

\* make_room_for: the payload capacity asked for
make_room_new_len(sh, inc_len) ==
    LET new_len == sh.len + inc_len
    IN  IF new_len < SDS_MAX_PRE_ALLOC THEN new_len * 2 ELSE new_len + SDS_MAX_PRE_ALLOC

\* a header width chosen for the added bytes alone
make_room_new_type_of_inc(sh, inc_len) == sds_req_type(inc_len)

\* a header width chosen for the new length, before it is doubled
make_room_new_type_of_len(sh, inc_len) == sds_req_type(sh.len + inc_len)

make_room_new_type(sh, inc_len) == sds_req_type(make_room_new_len(sh, inc_len))

\* the bytes asked of the allocator
make_room_size(sh, inc_len) ==
    sds_hdr_size(make_room_new_type(sh, inc_len)) + make_room_new_len(sh, inc_len)

make_room_grows(sh, inc_len) == avail(sh) < inc_len

\* make_room_for reallocates in place when the header width stays and the
\* buffer owns its block
make_room_reallocs(sh, inc_len, global) ==
    sh.flags = make_room_new_type(sh, inc_len) /\ ~global

\* a make_room_for that clamps the capacity to the maximum of the old header
\* width
make_room_for_old_clamp(sh, inc_len, global, usable) ==
    LET new_type == make_room_new_type(sh, inc_len)
        hdr_len == sds_hdr_size(new_type)
        capacity == min_type_max_size(usable - hdr_len, sh.flags)
    IN  IF ~make_room_grows(sh, inc_len) THEN sh
        ELSE IF make_room_reallocs(sh, inc_len, global)
        THEN set_alloc_uncheck(sh, capacity)
        ELSE set_alloc_uncheck(
                 set_len_uncheck([flags |-> new_type, len |-> 0, alloc |-> 0,
                                  buf |-> BTake(sh.buf, sh.len)], sh.len),
                 capacity)

\* a make_room_for whose fresh block does not receive the old bytes
make_room_for_no_copy(sh, inc_len, global, usable) ==
    LET new_type == make_room_new_type(sh, inc_len)
        hdr_len == sds_hdr_size(new_type)
        capacity == min_type_max_size(usable - hdr_len, new_type)
    IN  IF ~make_room_grows(sh, inc_len) THEN sh
        ELSE IF make_room_reallocs(sh, inc_len, global)
        THEN set_alloc_uncheck(sh, capacity)
        ELSE set_alloc_uncheck(
                 set_len_uncheck([flags |-> new_type, len |-> 0, alloc |-> 0,
                                  buf |-> Rep(0, sh.len)], sh.len),
                 capacity)

\* the header and payload after make_room_for(inc_len)
make_room_for(sh, inc_len, global, usable) ==
    LET new_type == make_room_new_type(sh, inc_len)
        hdr_len == sds_hdr_size(new_type)
        capacity == min_type_max_size(usable - hdr_len, new_type)
    IN  IF ~make_room_grows(sh, inc_len) THEN sh
        ELSE IF make_room_reallocs(sh, inc_len, global)
        THEN set_alloc_uncheck(sh, capacity)
        ELSE set_alloc_uncheck(
                 set_len_uncheck([flags |-> new_type, len |-> 0, alloc |-> 0,
                                  buf |-> BTake(sh.buf, sh.len)], sh.len),
                 capacity)

\* push_from_raw_pointer for a non-empty source
push_from_raw_pointer(sh, bytes, global, usable) ==
    LET old_len == sh.len
        room == make_room_for(sh, BLen(bytes), global, usable)
    IN  set_len_uncheck([room EXCEPT !.buf = BWrite(room.buf, old_len, bytes)],
                        old_len + BLen(bytes))

clear(sh) == set_len_uncheck(sh, 0)

(***************************************************************************)
(* Compact byte buffer: the state machine of the handles.                  *)
(***************************************************************************)
\* the integer-set variables of a run that uses no integer set
IntSetIdle ==
    /\ EMPTY_SET = [encoding |-> INT16, len |-> 0, alloc |-> 0]
    /\ set = "EMPTY_SET"
    /\ block = NoBlock
    /\ last = Called("new", Zero, "true")
    /\ inserted = {}

SdsInit ==
    /\ target_os \in TargetOs
    /\ EMPTY_HDR = [len |-> 0, alloc |-> 0, flags |-> SDS_TYPE_8]
    /\ heap = [b \in Blocks |-> Free]
    /\ sds = [h \in Handles |-> "none"]
    /\ expect = [h \in Handles |-> <<>>]
    /\ calls = 0
    /\ hdrStores = FALSE
    /\ fault = "none"
    /\ IntSetIdle
    /\ ListIdle

\* Sds::empty(): a pointer just past the static header
empty == "EMPTY_HDR"

\* a handle bound to the result of from_raw_pointer(init)
Construct(h, init) ==
    IF BLen(init) = 0
    THEN /\ sds' = [sds EXCEPT ![h] = empty]
         /\ heap' = heap
    ELSE \E usable \in z_malloc_usable(from_raw_pointer_total_size(init)) :
         /\ heap' = [heap EXCEPT ![FreshBlock] = from_raw_pointer(init, usable)]
         /\ sds' = [sds EXCEPT ![h] = FreshBlock]

\* let h = Sds::from_slice(init) / Sds::from_str(init) / Sds::empty()
FromSlice(h, init) ==
    /\ fault = "none"
    /\ calls < MaxCalls
    /\ ~Live(h)
    /\ Construct(h, init)
    /\ expect' = [expect EXCEPT ![h] = init]
    /\ calls' = calls + 1
    /\ UNCHANGED <<EMPTY_HDR, hdrStores, fault>>

\* let g = h.clone()
Clone(h, g) ==
    /\ fault = "none"
    /\ calls < MaxCalls
    /\ Live(h)
    /\ ~Live(g)
    /\ Construct(g, as_slice(h))
    /\ expect' = [expect EXCEPT ![g] = expect[h]]
    /\ calls' = calls + 1
    /\ UNCHANGED <<EMPTY_HDR, hdrStores, fault>>

\* the heap and the handle after h.push_from_raw_pointer(bytes)
PushBytes(h, bytes) ==
    LET sh == hdr(h)
        global == sds_is_global_empty(h)
        inc == BLen(bytes)
    IN  IF inc = 0 THEN UNCHANGED <<heap, sds>>
        ELSE IF ~make_room_grows(sh, inc)
        THEN /\ heap' = [heap EXCEPT
                    ![sds[h]] = Readable(push_from_raw_pointer(sh, bytes, global, 0))]
             /\ sds' = sds
        ELSE IF make_room_reallocs(sh, inc, global)
        THEN \E dest \in {sds[h], FreshBlock} :
             /\ heap' = [heap EXCEPT
                    ![sds[h]] = Free,
                    ![dest] = Readable(push_from_raw_pointer(sh, bytes, global,
                                  z_realloc_usable(make_room_size(sh, inc))))]
             /\ sds' = [sds EXCEPT ![h] = dest]
        ELSE \E usable \in z_malloc_usable(make_room_size(sh, inc)) :
             LET dest == FreshBlock
                 moved == Readable(push_from_raw_pointer(sh, bytes, global, usable))
             IN  /\ heap' = IF global THEN [heap EXCEPT ![dest] = moved]
                            ELSE [heap EXCEPT ![dest] = moved, ![sds[h]] = Free]
                 /\ sds' = [sds EXCEPT ![h] = dest]

\* h.push_str(bytes) / h.push_slice(bytes) / h.push_u8(byte)
Push(h, bytes) ==
    /\ fault = "none"
    /\ calls < MaxCalls
    /\ Live(h)
    /\ PushBytes(h, bytes)
    /\ expect' = [expect EXCEPT ![h] = BCat(expect[h], bytes)]
    /\ calls' = calls + 1
    /\ UNCHANGED <<EMPTY_HDR, hdrStores, fault>>

\* h.push(&g)
PushSds(h, g) ==
    /\ fault = "none"
    /\ calls < MaxCalls
    /\ h # g
    /\ Live(h)
    /\ Live(g)
    /\ PushBytes(h, as_slice(g))
    /\ expect' = [expect EXCEPT ![h] = BCat(expect[h], expect[g])]
    /\ calls' = calls + 1
    /\ UNCHANGED <<EMPTY_HDR, hdrStores, fault>>

\* h.clear(): set_len_uncheck(0) stores through the handle whatever it points
\* to; for a handle that aliases EMPTY_HDR the store goes into the static
Clear(h) ==
    /\ fault = "none"
    /\ calls < MaxCalls
    /\ Live(h)
    /\ IF sds_is_global_empty(h)
       THEN /\ EMPTY_HDR' = [EMPTY_HDR EXCEPT !.len = 0]
            /\ hdrStores' = TRUE
            /\ heap' = heap
       ELSE /\ heap' = [heap EXCEPT ![sds[h]] = Readable(clear(hdr(h)))]
            /\ UNCHANGED <<EMPTY_HDR, hdrStores>>
    /\ expect' = [expect EXCEPT ![h] = <<>>]
    /\ calls' = calls + 1
    /\ UNCHANGED <<sds, fault>>

\* the same call when the store into the static faults: statics without
\* interior mutability live in read-only memory
ClearFault(h) ==
    /\ fault = "none"
    /\ calls < MaxCalls
    /\ Live(h)
    /\ sds_is_global_empty(h)
    /\ fault' = "segv"
    /\ calls' = calls + 1
    /\ UNCHANGED <<EMPTY_HDR, hdrStores, heap, sds, expect>>

\* drop(h): the block is freed unless the handle aliases the static
Drop(h) ==
    /\ fault = "none"
    /\ calls < MaxCalls
    /\ Live(h)
    /\ heap' = IF sds_is_global_empty(h) THEN heap ELSE [heap EXCEPT ![sds[h]] = Free]
    /\ sds' = [sds EXCEPT ![h] = "none"]
    /\ expect' = [expect EXCEPT ![h] = <<>>]
    /\ calls' = calls + 1
    /\ UNCHANGED <<EMPTY_HDR, hdrStores, fault>>

SdsNext ==
    \/ \E h \in Handles, init \in Pieces : FromSlice(h, init) /\ UNCHANGED <<isVars, inserted, listVars, target_os>>
    \/ \E h, g \in Handles : Clone(h, g) /\ UNCHANGED <<isVars, inserted, listVars, target_os>>
    \/ \E h \in Handles, bytes \in Pieces : Push(h, bytes) /\ UNCHANGED <<isVars, inserted, listVars, target_os>>
    \/ \E h, g \in Handles : PushSds(h, g) /\ UNCHANGED <<isVars, inserted, listVars, target_os>>
    \/ \E h \in Handles : Clear(h) /\ UNCHANGED <<isVars, inserted, listVars, target_os>>
    \/ \E h \in Handles : ClearFault(h) /\ UNCHANGED <<isVars, inserted, listVars, target_os>>
    \/ \E h \in Handles : Drop(h) /\ UNCHANGED <<isVars, inserted, listVars, target_os>>

SpecSds == SdsInit /\ [][SdsNext]_vars

(***************************************************************************)
(* Compact byte buffer: comparison.                                        *)
(***************************************************************************)
\* <[u8] as Ord>::cmp: the bytes are compared in order up to the shorter
\* length, then the lengths
RECURSIVE slice_cmp(_, _)
slice_cmp(a, b) ==
    IF a = <<>> THEN (IF b = <<>> THEN "Equal" ELSE "Less")
    ELSE IF b = <<>> THEN "Greater"
    ELSE IF a[1][1] < b[1][1] THEN "Less"
    ELSE IF a[1][1] > b[1][1] THEN "Greater"
    ELSE LET n == IF a[1][2] < b[1][2] THEN a[1][2] ELSE b[1][2]
         IN  slice_cmp(BDrop(a, n), BDrop(b, n))

\* Ord::cmp and PartialOrd::partial_cmp for Sds
sds_cmp(h, g) == slice_cmp(as_slice(h), as_slice(g))

\* an eq that also compares the capacities
sds_eq_with_alloc(h, g) ==
    slice_cmp(as_slice(h), as_slice(g)) = "Equal" /\ sds_alloc(h) = sds_alloc(g)

\* PartialEq::eq for Sds
sds_eq(h, g) == slice_cmp(as_slice(h), as_slice(g)) = "Equal"

(***************************************************************************)
(* Compact byte buffer: clone_from.                                        *)
(***************************************************************************)
\* the handle points to a block that has been freed
Dangling(h) == sds[h] \in Blocks /\ heap[sds[h]] = Free

\* h.clone_from(&g).  `let s = source.clone()` takes a fresh block (or the
\* static, for an empty source); `let _ = Sds(self.0)` drops the old value of
\* h at once; `self.0 = s.0` copies the pointer; and s, still owning the block,
\* is dropped when the function returns.
CloneFrom(h, g) ==
    /\ fault = "none"
    /\ calls < MaxCalls
    /\ h # g
    /\ Live(h)
    /\ Live(g)
    /\ LET s == IF BLen(as_slice(g)) = 0 THEN empty ELSE FreshBlock
           dropped == IF sds_is_global_empty(h) THEN heap
                      ELSE [heap EXCEPT ![sds[h]] = Free]
       IN  /\ heap' = IF s = empty THEN dropped ELSE [dropped EXCEPT ![s] = Free]
           /\ sds' = [sds EXCEPT ![h] = s]
    /\ expect' = [expect EXCEPT ![h] = expect[g]]
    /\ calls' = calls + 1
    /\ UNCHANGED <<EMPTY_HDR, hdrStores, fault>>

\* drop(h) for a handle whose block is already free: the allocator's
\* double-free check aborts the process
DropDanglingAbort(h) ==
    /\ fault = "none"
    /\ calls < MaxCalls
    /\ Live(h)
    /\ Dangling(h)
    /\ fault' = "abort"
    /\ calls' = calls + 1
    /\ UNCHANGED <<EMPTY_HDR, hdrStores, heap, sds, expect>>

\* the same drop when the second free goes unnoticed
DropDangling(h) ==
    /\ fault = "none"
    /\ calls < MaxCalls
    /\ Live(h)
    /\ Dangling(h)
    /\ sds' = [sds EXCEPT ![h] = "none"]
    /\ expect' = [expect EXCEPT ![h] = <<>>]
    /\ calls' = calls + 1
    /\ UNCHANGED <<EMPTY_HDR, hdrStores, heap, fault>>

\* the buffer calls with clone_from among them.  Of the calls through a
\* handle whose block has been freed only drop is followed.
SdsCloneFromNext ==
    \/ \E h \in Handles, init \in Pieces :
           FromSlice(h, init) /\ UNCHANGED <<isVars, inserted, listVars, target_os>>
    \/ \E h, g \in Handles :
           ~Dangling(h) /\ Clone(h, g) /\ UNCHANGED <<isVars, inserted, listVars, target_os>>
    \/ \E h, g \in Handles :
           /\ ~Dangling(h)
           /\ ~Dangling(g)
           /\ CloneFrom(h, g)
           /\ UNCHANGED <<isVars, inserted, listVars, target_os>>
    \/ \E h \in Handles, bytes \in Pieces :
           ~Dangling(h) /\ Push(h, bytes) /\ UNCHANGED <<isVars, inserted, listVars, target_os>>
    \/ \E h, g \in Handles :
           /\ ~Dangling(h)
           /\ ~Dangling(g)
           /\ PushSds(h, g)
           /\ UNCHANGED <<isVars, inserted, listVars, target_os>>
    \/ \E h \in Handles :
           ~Dangling(h) /\ Clear(h) /\ UNCHANGED <<isVars, inserted, listVars, target_os>>
    \/ \E h \in Handles : ClearFault(h) /\ UNCHANGED <<isVars, inserted, listVars, target_os>>
    \/ \E h \in Handles :
           ~Dangling(h) /\ Drop(h) /\ UNCHANGED <<isVars, inserted, listVars, target_os>>
    \/ \E h \in Handles : DropDanglingAbort(h) /\ UNCHANGED <<isVars, inserted, listVars, target_os>>
    \/ \E h \in Handles : DropDangling(h) /\ UNCHANGED <<isVars, inserted, listVars, target_os>>

SpecSdsCloneFrom == SdsInit /\ [][SdsCloneFromNext]_vars

(***************************************************************************)
(* Doubly linked list: nodes and pointers.  A pointer is a node address or *)
(* null; the node memory maps every address to the node stored there.      *)
(***************************************************************************)
MaxNodes == 3

Nodes == 1..MaxNodes

Lists == {"list", "other"}

ListValues == {1, 2}

null == 0

\* an address the allocator has not handed out, or has taken back
FreeNode == [prev |-> null, next |-> null, value |-> 0]

\* *p
at(m, p) == IF p = null THEN FreeNode ELSE m[p]

\* (*p).prev = q and (*p).next = q
set_prev(m, p, q) == IF p = null THEN m ELSE [m EXCEPT ![p].prev = q]

set_next(m, p, q) == IF p = null THEN m ELSE [m EXCEPT ![p].next = q]

\* z_malloc_of_type::<Node<T>>(): an address that is not in use
z_malloc_of_type(m) == CHOOSE n \in Nodes : m[n] = FreeNode

FreeNodes(m) == { n \in Nodes : m[n] = FreeNode }

\* z_free(node)
z_free(m, node) == IF node = null THEN m ELSE [m EXCEPT ![node] = FreeNode]

\* what a call leaves: the node memory, the list, the values it invoked the
\* free hook on, and whether it freed an address that was not allocated
Left(m, L, log, bad) == [mem |-> m, list |-> L, log |-> log, bad |-> bad]

(***************************************************************************)
(* Doubly linked list: the operations, as maps from the node memory and    *)
(* the list to what the call leaves.                                       *)
(***************************************************************************)
list_new == [head |-> null, tail |-> null, len |-> 0]

is_empty(L) == L.len = 0

\* the loop of clear: `count` nodes from `current` on are freed
RECURSIVE clear_loop(_, _, _, _, _)
clear_loop(m, current, count, log, bad) ==
    IF count = 0 THEN Left(m, list_new, log, bad)
    ELSE clear_loop(z_free(m, current), at(m, current).next, count - 1,
                    Append(log, at(m, current).value),
                    bad \/ at(m, current) = FreeNode)

\* a clear that frees no node
list_clear_leaking(m, L) == Left(m, list_new, <<>>, FALSE)

list_clear(m, L) == clear_loop(m, L.head, L.len, <<>>, FALSE)

\* a push_front that does not link the old head back to the new node
push_front_no_backlink(m, L, value) ==
    LET node == z_malloc_of_type(m)
    IN  IF L.len = 0
        THEN Left([m EXCEPT ![node] = [prev |-> null, next |-> null, value |-> value]],
                  [head |-> node, tail |-> node, len |-> L.len + 1], <<>>, FALSE)
        ELSE Left([m EXCEPT ![node] = [prev |-> null, next |-> L.head, value |-> value]],
                  [head |-> node, tail |-> L.tail, len |-> L.len + 1], <<>>, FALSE)

push_front(m, L, value) ==
    LET node == z_malloc_of_type(m)
    IN  IF L.len = 0
        THEN Left([m EXCEPT ![node] = [prev |-> null, next |-> null, value |-> value]],
                  [head |-> node, tail |-> node, len |-> L.len + 1], <<>>, FALSE)
        ELSE Left(set_prev([m EXCEPT ![node] =
                               [prev |-> null, next |-> L.head, value |-> value]],
                           L.head, node),
                  [head |-> node, tail |-> L.tail, len |-> L.len + 1], <<>>, FALSE)

push_back(m, L, value) ==
    LET node == z_malloc_of_type(m)
    IN  IF L.len = 0
        THEN Left([m EXCEPT ![node] = [prev |-> null, next |-> null, value |-> value]],
                  [head |-> node, tail |-> node, len |-> L.len + 1], <<>>, FALSE)
        ELSE Left(set_next([m EXCEPT ![node] =
                               [prev |-> L.tail, next |-> null, value |-> value]],
                           L.tail, node),
                  [head |-> L.head, tail |-> node, len |-> L.len + 1], <<>>, FALSE)

\* an insert_node that leaves the list's head and tail as they were
insert_node_keeps_ends(m, L, exist_node, value, after) ==
    LET node == z_malloc_of_type(m)
        prev == IF after THEN exist_node ELSE m[exist_node].prev
        next == IF after THEN m[exist_node].next ELSE exist_node
        m1 == [m EXCEPT ![node] = [prev |-> prev, next |-> next, value |-> value]]
    IN  Left(set_prev(set_next(m1, prev, node), next, node),
             [head |-> L.head, tail |-> L.tail, len |-> L.len + 1], <<>>, FALSE)

insert_node(m, L, exist_node, value, after) ==
    LET node == z_malloc_of_type(m)
        prev == IF after THEN exist_node ELSE m[exist_node].prev
        next == IF after THEN m[exist_node].next ELSE exist_node
        tail == IF after /\ L.tail = exist_node THEN node ELSE L.tail
        head == IF ~after /\ L.head = exist_node THEN node ELSE L.head
        m1 == [m EXCEPT ![node] = [prev |-> prev, next |-> next, value |-> value]]
    IN  Left(set_prev(set_next(m1, prev, node), next, node),
             [head |-> head, tail |-> tail, len |-> L.len + 1], <<>>, FALSE)

\* a remove that does not unlink a first node from the head
list_remove_keeps_head(m, L, node) ==
    LET n == m[node]
        m1 == IF n.prev = null THEN m ELSE set_next(m, n.prev, n.next)
        tail == IF n.next = null THEN n.prev ELSE L.tail
        m2 == IF n.next = null THEN m1 ELSE set_prev(m1, n.next, n.prev)
    IN  Left(z_free(m2, node), [head |-> L.head, tail |-> tail, len |-> L.len - 1],
             <<n.value>>, m[node] = FreeNode)

list_remove(m, L, node) ==
    LET n == m[node]
        head == IF n.prev = null THEN n.next ELSE L.head
        m1 == IF n.prev = null THEN m ELSE set_next(m, n.prev, n.next)
        tail == IF n.next = null THEN n.prev ELSE L.tail
        m2 == IF n.next = null THEN m1 ELSE set_prev(m1, n.next, n.prev)
    IN  Left(z_free(m2, node), [head |-> head, tail |-> tail, len |-> L.len - 1],
             <<n.value>>, m[node] = FreeNode)

\* the loops of get: `index` is tested and never changed
RECURSIVE get_prev_loop(_, _, _)
get_prev_loop(m, n, index) ==
    IF index > 0 /\ n # null THEN get_prev_loop(m, m[n].prev, index) ELSE n

RECURSIVE get_next_loop(_, _, _)
get_next_loop(m, n, index) ==
    IF index > 0 /\ n # null THEN get_next_loop(m, m[n].next, index) ELSE n

list_get(m, L, index) ==
    IF index < 0 THEN get_prev_loop(m, L.tail, (-index) - 1)
    ELSE get_next_loop(m, L.head, index)

\* the same loops, counting the links they follow; a count above MaxNodes
\* stands for a loop that has not stopped after more links than any list has
RECURSIVE get_prev_links(_, _, _, _)
get_prev_links(m, n, index, followed) ==
    IF index > 0 /\ n # null /\ followed <= MaxNodes
    THEN get_prev_links(m, m[n].prev, index, followed + 1)
    ELSE followed

\* a loop that tests `index` alone and walks on past the end of the list
RECURSIVE get_next_links_past_null(_, _, _, _)
get_next_links_past_null(m, n, index, followed) ==
    IF index > 0 /\ followed <= MaxNodes
    THEN get_next_links_past_null(m, at(m, n).next, index, followed + 1)
    ELSE followed

RECURSIVE get_next_links(_, _, _, _)
get_next_links(m, n, index, followed) ==
    IF index > 0 /\ n # null /\ followed <= MaxNodes
    THEN get_next_links(m, m[n].next, index, followed + 1)
    ELSE followed

list_get_links(m, L, index) ==
    IF index < 0 THEN get_prev_links(m, L.tail, (-index) - 1, 0)
    ELSE get_next_links(m, L.head, index, 0)

\* a rotation that leaves the list's head pointer in place
move_tail_to_head_keeps_head(m, L) ==
    IF L.len <= 1 THEN Left(m, L, <<>>, FALSE)
    ELSE LET tail == L.tail
             new_tail == m[tail].prev
             m1 == set_next(m, new_tail, null)
             m2 == set_prev(m1, L.head, tail)
             m3 == [m2 EXCEPT ![tail].prev = null, ![tail].next = L.head]
         IN  Left(m3, [head |-> L.head, tail |-> new_tail, len |-> L.len], <<>>, FALSE)

move_tail_to_head(m, L) ==
    IF L.len <= 1 THEN Left(m, L, <<>>, FALSE)
    ELSE LET tail == L.tail
             new_tail == m[tail].prev
             m1 == set_next(m, new_tail, null)
             m2 == set_prev(m1, L.head, tail)
             m3 == [m2 EXCEPT ![tail].prev = null, ![tail].next = L.head]
         IN  Left(m3, [head |-> tail, tail |-> new_tail, len |-> L.len], <<>>, FALSE)

move_head_to_tail(m, L) ==
    IF L.len <= 1 THEN Left(m, L, <<>>, FALSE)
    ELSE LET head == L.head
             new_head == m[head].next
             m1 == set_prev(m, new_head, null)
             m2 == set_next(m1, L.tail, head)
             m3 == [m2 EXCEPT ![head].next = null, ![head].prev = L.tail]
         IN  Left(m3, [head |-> new_head, tail |-> head, len |-> L.len], <<>>, FALSE)

\* an append that leaves the donor's head and tail in place
list_append_keeps_other(m, L, other) ==
    IF is_empty(other) THEN [mem |-> m, list |-> L, other |-> other]
    ELSE LET m1 == set_prev(m, other.head, L.tail)
             m2 == IF L.tail = null THEN m1 ELSE set_next(m1, L.tail, other.head)
         IN  [mem |-> m2,
              list |-> [head |-> IF L.tail = null THEN other.head ELSE L.head,
                        tail |-> other.tail, len |-> L.len + other.len],
              other |-> [other EXCEPT !.len = 0]]

\* self.append(other): what it leaves of the memory and of the two lists
list_append(m, L, other) ==
    IF is_empty(other) THEN [mem |-> m, list |-> L, other |-> other]
    ELSE LET m1 == set_prev(m, other.head, L.tail)
             m2 == IF L.tail = null THEN m1 ELSE set_next(m1, L.tail, other.head)
         IN  [mem |-> m2,
              list |-> [head |-> IF L.tail = null THEN other.head ELSE L.head,
                        tail |-> other.tail, len |-> L.len + other.len],
              other |-> list_new]

\* It::next over a HeadToTail / TailToHead iterator, to the end: the nodes
\* visited.  `fuel` bounds the walk by the number of addresses.
RECURSIVE iter_from(_, _, _)
iter_from(m, current, fuel) ==
    IF current = null \/ fuel = 0 THEN <<>>
    ELSE <<current>> \o iter_from(m, m[current].next, fuel - 1)

RECURSIVE rev_iter_from(_, _, _)
rev_iter_from(m, current, fuel) ==
    IF current = null \/ fuel = 0 THEN <<>>
    ELSE <<current>> \o rev_iter_from(m, m[current].prev, fuel - 1)

iter(m, L) == iter_from(m, L.head, MaxNodes + 1)

rev_iter(m, L) == rev_iter_from(m, L.tail, MaxNodes + 1)

\* the loop of search over the nodes an iterator yields: the first one whose
\* value equals the argument, null when the iterator runs out
RECURSIVE search_loop(_, _, _)
search_loop(m, visited, value) ==
    IF visited = <<>> THEN null
    ELSE IF m[Head(visited)].value = value THEN Head(visited)
    ELSE search_loop(m, Tail(visited), value)

\* a search that walks from the tail
list_search_from_tail(m, L, value) == search_loop(m, rev_iter(m, L), value)

list_search(m, L, value) == search_loop(m, iter(m, L), value)

\* the loop of clone: the values of the visited nodes are pushed to the back
RECURSIVE clone_loop(_, _, _)
clone_loop(m, copy, visited) ==
    IF visited = <<>> THEN Left(m, copy, <<>>, FALSE)
    ELSE LET pushed == push_back(m, copy, m[Head(visited)].value)
         IN  clone_loop(pushed.mem, pushed.list, Tail(visited))

list_clone(m, L) == clone_loop(m, list_new, iter(m, L))

\* self.clone_from(source): clear, clone the source, write the clone over self
list_clone_from(m, L, source) ==
    LET cleared == list_clear(m, L)
        dup == list_clone(cleared.mem, source)
    IN  Left(dup.mem, dup.list, cleared.log, cleared.bad)

(***************************************************************************)
(* Doubly linked list: the state machine of two lists.                     *)
(***************************************************************************)
\* the list has been constructed and not dropped
ListLive(l) == l \in DOMAIN lists

\* the values a list holds, head to tail
Values(m, L) == [i \in 1..Len(iter(m, L)) |-> m[iter(m, L)[i]].value]

Range(f) == { f[i] : i \in DOMAIN f }

\* Value::free(self) on each value of `log`: nothing for a plain value type;
\* for a pointer type the hook releases what the value points to
value_free(log) == IF valueType = "ptr" THEN released \cup Range(log) ELSE released

\* a value the client may hand to a list: any plain value; a pointer only if
\* no list holds it and it has not been released
Pushable(value) ==
    valueType = "ptr" =>
        /\ value \notin released
        /\ \A l \in DOMAIN lists : value \notin Range(Values(mem, lists[l]))

\* a finished list call and the values it invoked the free hook on
ListCalled(op, log) == [op |-> op, hooked |-> log]

\* the list asks the allocator for no usable size: one build stands for all
ListInit ==
    /\ target_os = "linux_or_macos"
    /\ mem = [n \in Nodes |-> FreeNode]
    /\ lists = [l \in {} |-> list_new]
    /\ valueType \in {"plain", "ptr"}
    /\ released = {}
    /\ listLast = ListCalled("none", <<>>)
    /\ badFree = FALSE
    /\ fault = "none"
    /\ IntSetIdle
    /\ SdsIdle

\* the state after a call on list l that leaves `left`
Leaves(op, l, left) ==
    /\ mem' = left.mem
    /\ lists' = [lists EXCEPT ![l] = left.list]
    /\ listLast' = ListCalled(op, left.log)
    /\ released' = value_free(left.log)
    /\ badFree' = (badFree \/ left.bad)
    /\ UNCHANGED <<valueType, fault>>

\* let l = List::new()
ListNew(l) ==
    /\ ~ListLive(l)
    /\ lists' = (l :> list_new) @@ lists
    /\ listLast' = ListCalled("new", <<>>)
    /\ UNCHANGED <<mem, valueType, released, badFree, fault>>

PushFront(l, value) ==
    /\ ListLive(l)
    /\ FreeNodes(mem) # {}
    /\ Pushable(value)
    /\ Leaves("push_front", l, push_front(mem, lists[l], value))

PushBack(l, value) ==
    /\ ListLive(l)
    /\ FreeNodes(mem) # {}
    /\ Pushable(value)
    /\ Leaves("push_back", l, push_back(mem, lists[l], value))

\* l.insert_node(exist_node, value, after) for a node of l
InsertNode(l, exist_node, value, after) ==
    /\ ListLive(l)
    /\ exist_node \in Range(iter(mem, lists[l]))
    /\ FreeNodes(mem) # {}
    /\ Pushable(value)
    /\ Leaves("insert_node", l, insert_node(mem, lists[l], exist_node, value, after))

\* l.remove(node) for a node of l
RemoveNode(l, node) ==
    /\ ListLive(l)
    /\ node \in Range(iter(mem, lists[l]))
    /\ Leaves("remove", l, list_remove(mem, lists[l], node))

MoveTailToHead(l) ==
    /\ ListLive(l)
    /\ Leaves("move_tail_to_head", l, move_tail_to_head(mem, lists[l]))

MoveHeadToTail(l) ==
    /\ ListLive(l)
    /\ Leaves("move_head_to_tail", l, move_head_to_tail(mem, lists[l]))

\* l.append(&mut o)
AppendList(l, o) ==
    /\ l # o
    /\ ListLive(l)
    /\ ListLive(o)
    /\ LET left == list_append(mem, lists[l], lists[o])
       IN  /\ mem' = left.mem
           /\ lists' = [lists EXCEPT ![l] = left.list, ![o] = left.other]
    /\ listLast' = ListCalled("append", <<>>)
    /\ UNCHANGED <<valueType, released, badFree, fault>>

ClearList(l) ==
    /\ ListLive(l)
    /\ Leaves("clear", l, list_clear(mem, lists[l]))

\* let o = l.clone()
CloneList(l, o) ==
    /\ ListLive(l)
    /\ ~ListLive(o)
    /\ Cardinality(FreeNodes(mem)) >= lists[l].len
    /\ LET left == list_clone(mem, lists[l])
       IN  /\ mem' = left.mem
           /\ lists' = (o :> left.list) @@ lists
    /\ listLast' = ListCalled("clone", <<>>)
    /\ UNCHANGED <<valueType, released, badFree, fault>>

\* l.clone_from(&o)
CloneFromList(l, o) ==
    /\ l # o
    /\ ListLive(l)
    /\ ListLive(o)
    /\ Cardinality(FreeNodes(mem)) + lists[l].len >= lists[o].len
    /\ Leaves("clone_from", l, list_clone_from(mem, lists[l], lists[o]))

\* drop(l): clear, and the list is gone
DropList(l) ==
    /\ ListLive(l)
    /\ LET left == list_clear(mem, lists[l])
       IN  /\ mem' = left.mem
           /\ listLast' = ListCalled("drop", left.log)
           /\ released' = value_free(left.log)
           /\ badFree' = (badFree \/ left.bad)
    /\ lists' = [k \in DOMAIN lists \ {l} |-> lists[k]]
    /\ UNCHANGED <<valueType, fault>>

ListNext ==
    \/ \E l \in Lists : ListNew(l) /\ UNCHANGED <<isVars, inserted, sdsVars, target_os>>
    \/ \E l \in Lists, value \in ListValues :
           PushFront(l, value) /\ UNCHANGED <<isVars, inserted, sdsVars, target_os>>
    \/ \E l \in Lists, value \in ListValues :
           PushBack(l, value) /\ UNCHANGED <<isVars, inserted, sdsVars, target_os>>
    \/ \E l \in Lists, exist_node \in Nodes, value \in ListValues, after \in BOOLEAN :
           InsertNode(l, exist_node, value, after) /\ UNCHANGED <<isVars, inserted, sdsVars, target_os>>
    \/ \E l \in Lists, node \in Nodes :
           RemoveNode(l, node) /\ UNCHANGED <<isVars, inserted, sdsVars, target_os>>
    \/ \E l \in Lists : MoveTailToHead(l) /\ UNCHANGED <<isVars, inserted, sdsVars, target_os>>
    \/ \E l \in Lists : MoveHeadToTail(l) /\ UNCHANGED <<isVars, inserted, sdsVars, target_os>>
    \/ \E l, o \in Lists : AppendList(l, o) /\ UNCHANGED <<isVars, inserted, sdsVars, target_os>>
    \/ \E l \in Lists : ClearList(l) /\ UNCHANGED <<isVars, inserted, sdsVars, target_os>>
    \/ \E l, o \in Lists : CloneList(l, o) /\ UNCHANGED <<isVars, inserted, sdsVars, target_os>>
    \/ \E l, o \in Lists : CloneFromList(l, o) /\ UNCHANGED <<isVars, inserted, sdsVars, target_os>>
    \/ \E l \in Lists : DropList(l) /\ UNCHANGED <<isVars, inserted, sdsVars, target_os>>

SpecList == ListInit /\ [][ListNext]_vars

(***************************************************************************)
(* Integer set: properties.                                                *)
(***************************************************************************)
Elements(inner) == { inner.contents[i] : i \in 1..inner.len }

Without(contents, value) == SelectSeq(contents, LAMBDA x : x # value)

\* C1: after any sequence of insert and remove the element array is sorted
\* ascending: get(i) <= get(i + 1) for every 0 <= i < len - 1.
C1_SortedAscending ==
    \A i \in 0..(len(inner_ref) - 2) :
        \A lower \in get(inner_ref, i), upper \in get(inner_ref, i + 1) :
            Le(lower[2], upper[2])

\* C2: after any sequence of inserts of pairwise distinct values, contain(v)
\* is true for every inserted value and false for every other value.
C2_ContainExactlyInserted ==
    fault = "none" =>
        \A v \in AllValues : contain(inner_ref, v) <=> v \in inserted

\* C3: remove(v) on a set that contains v returns true; afterwards contain(v)
\* is false, the length is one less and the elements are the old array
\* without v.
C3_RemoveDeletesTheValue ==
    [][\A v \in AllValues :
        (last'.op = "remove" /\ last'.value = v /\ contain(inner_ref, v)) =>
            /\ last'.result = "true"
            /\ ~contain(inner_ref', v)
            /\ len(inner_ref') = len(inner_ref) - 1
            /\ inner_ref'.contents = Without(inner_ref.contents, v)]_vars

\* C4: insert and remove leave the set's encoding equal to or wider than
\* before, and remove leaves it as it was.
C4_EncodingNeverNarrows ==
    [][(last'.op \in {"insert", "remove"}) =>
        /\ inner_ref'.encoding >= inner_ref.encoding
        /\ last'.op = "remove" => inner_ref'.encoding = inner_ref.encoding]_vars

\* a remove has just emptied a set that an earlier insert widened to 64 bits
C4_Witness ==
    /\ last.op = "remove"
    /\ last.result = "true"
    /\ inner_ref.encoding = INT64
    /\ inner_ref.len = 0
    /\ EMPTY_SET.encoding = INT16

\* C5: insert(v) with v wider than the set's encoding returns true, sets the
\* encoding to v's, keeps the elements in order, grows the length by one and
\* puts v at index 0 if it is negative and at index len - 1 otherwise.
C5_UpgradeInsert ==
    [][\A v \in AllValues :
        (last'.op = "insert" /\ last'.value = v
            /\ value_encoding(v) > inner_ref.encoding) =>
            /\ last'.result = "true"
            /\ inner_ref'.encoding = value_encoding(v)
            /\ len(inner_ref') = len(inner_ref) + 1
            /\ inner_ref'.contents =
                  IF Lt(v, Zero) THEN <<v>> \o inner_ref.contents
                  ELSE Append(inner_ref.contents, v)]_vars

\* C6: insert(v) of a member and remove(v) of a non-member return false and
\* change neither the elements, the length nor the encoding.
C6_NoOpsReturnFalse ==
    [][\A v \in AllValues :
        (\/ last'.op = "insert" /\ last'.value = v /\ v \in Elements(inner_ref)
         \/ last'.op = "remove" /\ last'.value = v /\ v \notin Elements(inner_ref)) =>
            /\ last'.result = "false"
            /\ inner_ref' = inner_ref]_vars

\* C7: the shared empty instance is never mutated: no call dies storing into
\* it, it keeps length 0 and the 16-bit encoding, and so every handle that
\* aliases it is an empty 16-bit set.
C7_SharedEmptySetIntact ==
    /\ fault # "segv"
    /\ EMPTY_SET = [encoding |-> INT16, len |-> 0, alloc |-> 0]
    /\ is_global_empty => (inner_ref.encoding = INT16 /\ inner_ref.len = 0)

(***************************************************************************)
(* Compact byte buffer: properties.                                        *)
(***************************************************************************)
\* the largest value a header of this width can hold in a field, where TLC's
\* integers reach it
FieldFits(sds_type, n) ==
    /\ n >= 0
    /\ sds_type = SDS_TYPE_8 => n <= 255
    /\ sds_type = SDS_TYPE_16 => n <= 65535

\* C8: the shared empty buffer is never written: push on a handle that aliases
\* it allocates fresh storage, clear does not store into it (no call dies
\* storing into it), and every handle that aliases it reads as length 0.
C8_SharedEmptyHdrUntouched ==
    /\ ~hdrStores
    /\ fault # "segv"
    /\ EMPTY_HDR = [len |-> 0, alloc |-> 0, flags |-> SDS_TYPE_8]
    /\ \A h \in Handles : (Live(h) /\ sds_is_global_empty(h)) => sds_len(h) = 0

\* C9: for every buffer, alloc >= len, and both fit the header width.
C9_AllocAtLeastLen ==
    \A h \in Handles : Live(h) =>
        /\ sds_alloc(h) >= sds_len(h)
        /\ type_code(h) \in {SDS_TYPE_8, SDS_TYPE_16, SDS_TYPE_32, SDS_TYPE_64}
        /\ FieldFits(type_code(h), sds_len(h))
        /\ FieldFits(type_code(h), sds_alloc(h))

\* a push has moved "Hi, " to a block with a 16-bit header and left slack
C9_Witness ==
    \E h \in Handles :
        /\ Live(h)
        /\ type_code(h) = SDS_TYPE_16
        /\ expect[h] = BCat(HiStr, Rep(9, 1024))
        /\ sds_alloc(h) > sds_len(h)

\* C10: appending never loses bytes: a buffer's length is the number of bytes
\* it was given and its content is those bytes in order.
C10_AppendKeepsBytes ==
    \A h \in Handles : Live(h) =>
        /\ sds_len(h) = BLen(expect[h])
        /\ as_slice(h) = expect[h]

\* "Hi, " has been appended to within the 8-bit header and then moved to a
\* 16-bit header by a batch of nines
C10_Witness ==
    \E h \in Handles :
        /\ Live(h)
        /\ type_code(h) = SDS_TYPE_16
        /\ expect[h] = BCat(BCat(HiStr, RedisStr), Rep(9, 1024))
        /\ sds_len(h) = 1034

\* the byte at offset i of a byte string, 0 <= i < BLen(r)
RECURSIVE ByteAt(_, _)
ByteAt(r, i) == IF i < r[1][2] THEN r[1][1] ELSE ByteAt(Tail(r), i - r[1][2])

\* the offsets at which the runs of a byte string start, the first at `off`
RECURSIVE RunStartsFrom(_, _)
RunStartsFrom(r, off) ==
    IF r = <<>> THEN {}
    ELSE {off} \cup RunStartsFrom(Tail(r), off + r[1][2])

RunStarts(r) == RunStartsFrom(r, 0)

Below(offsets, n) == { k \in offsets : k < n }

\* the offsets at which two byte strings can first differ: inside a run of
\* both, a byte equals its predecessor in both
Offsets(a, b) ==
    Below(RunStarts(a) \cup RunStarts(b), IF BLen(a) < BLen(b) THEN BLen(a) ELSE BLen(b))

\* the offsets among these at which the two byte strings differ
Differences(a, b) == { k \in Offsets(a, b) : ByteAt(a, k) # ByteAt(b, k) }

\* the two byte strings have the same length and no offset in `diff`, the
\* offsets at which they differ
SameBytesBy(a, b, diff) == BLen(a) = BLen(b) /\ diff = {}

SameBytes(a, b) == SameBytesBy(a, b, Differences(a, b))

\* a precedes b in the byte-wise lexicographic order: at the first offset
\* where they differ a has the smaller byte, or a is a proper prefix of b
LexLessBy(a, b, diff) ==
    IF diff = {} THEN BLen(a) < BLen(b)
    ELSE LET k == CHOOSE d \in diff : \A e \in diff : d <= e
         IN  ByteAt(a, k) < ByteAt(b, k)

\* what eq and cmp answer for two byte strings is what their bytes say
CompareAgreesBy(a, b, diff, eq, order) ==
    /\ eq <=> SameBytesBy(a, b, diff)
    /\ order = "Less" <=> LexLessBy(a, b, diff)
    /\ order = "Greater" <=> LexLessBy(b, a, diff)
    /\ order = "Equal" <=> eq

CompareAgrees(a, b, eq, order) == CompareAgreesBy(a, b, Differences(a, b), eq, order)

\* a call of clear on h, whichever way it ends
ClearCall(h) == Clear(h) \/ ClearFault(h)

\* the blocks that are allocated
Allocated == { b \in Blocks : heap[b] # Free }

\* C11: clear() returns with the buffer's length 0 and with its capacity, its
\* header width and its storage block unchanged; no block is allocated,
\* reallocated or freed.
C11_ClearKeepsStorage ==
    [][\A h \in Handles : ClearCall(h) =>
        /\ fault' = "none"
        /\ sds_len(h)' = 0
        /\ sds_alloc(h)' = sds_alloc(h)
        /\ type_code(h)' = type_code(h)
        /\ sds' = sds
        /\ Allocated' = Allocated]_vars

\* C12: two buffers are equal exactly when their lengths and their first len
\* bytes are the same, whatever their capacities and header widths and
\* whether or not one aliases the shared empty instance; and the ordering is
\* the byte-wise lexicographic one over those bytes.
C12_CompareLiveBytes ==
    \A h, g \in Handles : (h # g /\ Live(h) /\ Live(g)) =>
        CompareAgrees(as_slice(h), as_slice(g), sds_eq(h, g), sds_cmp(h, g))

\* a cleared buffer that keeps its block and 16-bit header equals a buffer
\* that aliases the shared empty instance
C12_Witness ==
    \E h, g \in Handles :
        /\ Live(h)
        /\ Live(g)
        /\ sds_is_global_empty(g)
        /\ ~sds_is_global_empty(h)
        /\ type_code(h) = SDS_TYPE_16
        /\ sds_alloc(h) > sds_alloc(g)
        /\ sds_eq(h, g)

\* the clone and the source do not share a block, and the clone's block, if
\* it has one, is allocated
OwnStorage(h, g) ==
    \/ sds[h] = empty
    \/ /\ sds[h] \in Allocated
       /\ sds[h] # sds[g]

\* C13: after h = g.clone() or h.clone_from(&g), h's content equals g's and
\* h's storage is a distinct block that is allocated; and a push to, a clear
\* of or a drop of one buffer leaves the other's length and bytes unchanged.
C13_CloneIsIndependent ==
    [][\A h, g \in Handles :
        /\ (Clone(g, h) \/ CloneFrom(h, g)) =>
               /\ OwnStorage(h, g)'
               /\ SameBytes(as_slice(h), as_slice(g))'
        /\ (/\ h # g
            /\ Live(g)
            /\ (\E bytes \in Pieces : Push(h, bytes)) \/ ClearCall(h) \/ Drop(h)) =>
               /\ sds_len(g)' = sds_len(g)
               /\ as_slice(g)' = as_slice(g)]_vars

(***************************************************************************)
(* Buffer: runs with pieces of 1 MiB, which take the new length of a push   *)
(* to SDS_MAX_PRE_ALLOC and beyond.                                        *)
(***************************************************************************)
LargePieces == { <<>>, HiStr, Rep(9, 1024), Rep(9, SDS_MAX_PRE_ALLOC) }

SdsLargeNext ==
    \/ \E h \in Handles, init \in LargePieces :
           FromSlice(h, init) /\ UNCHANGED <<isVars, inserted, listVars, target_os>>
    \/ \E h \in Handles, bytes \in LargePieces :
           Push(h, bytes) /\ UNCHANGED <<isVars, inserted, listVars, target_os>>
    \/ \E h \in Handles : Clear(h) /\ UNCHANGED <<isVars, inserted, listVars, target_os>>
    \/ \E h \in Handles : ClearFault(h) /\ UNCHANGED <<isVars, inserted, listVars, target_os>>
    \/ \E h \in Handles : Drop(h) /\ UNCHANGED <<isVars, inserted, listVars, target_os>>

SpecSdsLarge == SdsInit /\ [][SdsLargeNext]_vars

(***************************************************************************)
(* Buffer: runs in which the allocator may fail.  malloc and realloc return *)
(* null; z_try_malloc_usable, z_malloc_usable and z_realloc_usable pass the *)
(* null pointer on with a usable size of 0.                                *)
(***************************************************************************)
\* Sds::from_slice(init) / Sds::from_str(init) when the allocator returns
\* null: from_raw_pointer panics on `sh.is_null()`
FromSliceFails(h, init) ==
    /\ fault = "none"
    /\ calls < MaxCalls
    /\ ~Live(h)
    /\ BLen(init) # 0
    /\ fault' = "panic"
    /\ calls' = calls + 1
    /\ UNCHANGED <<EMPTY_HDR, hdrStores, heap, sds, expect>>

\* Sds::try_from_slice(init) when the allocator returns null: from_raw_pointer
\* takes the block from s_try_malloc_usable and runs the same `sh.is_null()`
\* test
TryFromSliceFails(h, init) == FromSliceFails(h, init)

\* a push that has to grow when the allocator returns null: make_room_for
\* panics on `new_sh.is_null()`, after realloc as after malloc
PushFails(h, bytes) ==
    /\ fault = "none"
    /\ calls < MaxCalls
    /\ Live(h)
    /\ BLen(bytes) # 0
    /\ make_room_grows(hdr(h), BLen(bytes))
    /\ fault' = "panic"
    /\ calls' = calls + 1
    /\ UNCHANGED <<EMPTY_HDR, hdrStores, heap, sds, expect>>

SdsOomNext ==
    \/ SdsNext
    \/ \E h \in Handles, init \in Pieces :
           FromSliceFails(h, init) /\ UNCHANGED <<isVars, inserted, listVars, target_os>>
    \/ \E h \in Handles, init \in Pieces :
           TryFromSliceFails(h, init) /\ UNCHANGED <<isVars, inserted, listVars, target_os>>
    \/ \E h \in Handles, bytes \in Pieces :
           PushFails(h, bytes) /\ UNCHANGED <<isVars, inserted, listVars, target_os>>

SpecSdsOom == SdsInit /\ [][SdsOomNext]_vars

(***************************************************************************)
(* Doubly linked list: properties.                                         *)
(***************************************************************************)
\* the nodes and the values of a list, head to tail
NodeSeq(l) == iter(mem, lists[l])

ListSeq(l) == Values(mem, lists[l])

Reverse(s) == [i \in 1..Len(s) |-> s[Len(s) + 1 - i]]

IndexOf(s, x) == CHOOSE i \in 1..Len(s) : s[i] = x

RemoveAt(s, i) == SubSeq(s, 1, i - 1) \o SubSeq(s, i + 1, Len(s))

InsertAt(s, i, x) == SubSeq(s, 1, i - 1) \o <<x>> \o SubSeq(s, i, Len(s))

\* a call that changes list l alone
Mutates(l) ==
    \/ \E value \in ListValues : PushFront(l, value) \/ PushBack(l, value)
    \/ \E exist_node \in Nodes, value \in ListValues, after \in BOOLEAN :
           InsertNode(l, exist_node, value, after)
    \/ \E node \in Nodes : RemoveNode(l, node)
    \/ MoveTailToHead(l)
    \/ MoveHeadToTail(l)
    \/ ClearList(l)
    \/ DropList(l)

\* C14: a clone holds the same values in the same order in nodes of its own;
\* and a push, insert, remove, rotation, clear or drop on one list leaves the
\* other list's sequence unchanged and releases none of the values the other
\* list holds, also when the free hook of the value type releases a resource.
C14_CloneIsIndependent ==
    [][\A l, o \in Lists : (l # o) =>
        /\ CloneList(l, o) =>
               /\ ListSeq(o)' = ListSeq(l)
               /\ ListSeq(l)' = ListSeq(l)
               /\ Range(NodeSeq(o)') \cap Range(NodeSeq(l)') = {}
        /\ (ListLive(o) /\ Mutates(l)) =>
               /\ ListSeq(o)' = ListSeq(o)
               /\ Range(ListSeq(o)') \cap released' = {}]_vars

\* C15: for every list, head.prev and tail.next are null, len is 0 exactly
\* when head and tail are both null, the traversals from head and from tail
\* each visit exactly len nodes, and one is the reverse of the other.
C15_ListWellFormed ==
    \A l \in DOMAIN lists :
        /\ at(mem, lists[l].head).prev = null
        /\ at(mem, lists[l].tail).next = null
        /\ lists[l].len = 0 <=> (lists[l].head = null /\ lists[l].tail = null)
        /\ Len(iter(mem, lists[l])) = lists[l].len
        /\ Len(rev_iter(mem, lists[l])) = lists[l].len
        /\ iter(mem, lists[l]) = Reverse(rev_iter(mem, lists[l]))

\* a rotation has acted on a list that fills the node memory
C15_Witness ==
    /\ listLast.op = "move_head_to_tail"
    /\ \E l \in DOMAIN lists : lists[l].len = MaxNodes /\ ListSeq(l)[1] # ListSeq(l)[2]

\* C16: for 0 <= i < len, get(i) is the node i places after the head and
\* get(-(i+1)) the node i places before the tail; get(len) and get(-(len+1))
\* are null.
C16_GetCountsFromBothEnds ==
    \A l \in DOMAIN lists :
        /\ \A i \in 0..(lists[l].len - 1) :
               /\ list_get(mem, lists[l], i) = iter(mem, lists[l])[i + 1]
               /\ list_get(mem, lists[l], -(i + 1)) = rev_iter(mem, lists[l])[i + 1]
        /\ list_get(mem, lists[l], lists[l].len) = null
        /\ list_get(mem, lists[l], -(lists[l].len + 1)) = null

\* C17: a.append(&mut b) leaves a with its nodes followed by b's, b a valid
\* empty list, len(a) the sum of the two lengths, and no node allocated or
\* freed; with b empty it changes neither list.
C17_AppendMovesNodes ==
    [][\A l, o \in Lists : AppendList(l, o) =>
        /\ NodeSeq(l)' = NodeSeq(l) \o NodeSeq(o)
        /\ ListSeq(l)' = ListSeq(l) \o ListSeq(o)
        /\ lists'[l].len = lists[l].len + lists[o].len
        /\ lists'[o] = list_new
        /\ FreeNodes(mem') = FreeNodes(mem)
        /\ is_empty(lists[o]) => (lists' = lists /\ mem' = mem)]_vars

\* an append has left a list of full length beside an empty donor
C17_Witness ==
    /\ listLast.op = "append"
    /\ \E l, o \in DOMAIN lists :
           /\ lists[l].len = MaxNodes
           /\ lists[o] = list_new
           /\ ListSeq(l)[1] # ListSeq(l)[MaxNodes]

\* the addresses that hold a node
AllocatedNodes == Nodes \ FreeNodes(mem)

\* C18: no node is freed twice or without having been allocated; every node
\* linked in a list is allocated; and every allocated node is linked in
\* exactly one list, once: clear and drop leave no node of their list behind,
\* and no node is allocated when no list is left.
C18_NodesFreedExactlyOnce ==
    /\ ~badFree
    /\ \A l \in DOMAIN lists : Range(NodeSeq(l)) \subseteq AllocatedNodes
    /\ \A n \in AllocatedNodes :
           Cardinality({ <<l, i>> \in (DOMAIN lists) \X (1..MaxNodes) :
                           i <= Len(NodeSeq(l)) /\ NodeSeq(l)[i] = n }) = 1

\* the last list has been dropped, with two nodes in it, after a clone_from or
\* a clear
C18_Witness ==
    /\ listLast.op = "drop"
    /\ Len(listLast.hooked) >= 2
    /\ DOMAIN lists = {}
    /\ AllocatedNodes = {}

\* C19: remove(node) leaves the old sequence without that node, moves head or
\* tail off a removed end (both to null for the only node), invokes the free
\* hook once, on the node's value, frees the node and takes one off len.
C19_RemoveUnlinksTheNode ==
    [][\A l \in Lists, node \in Nodes : RemoveNode(l, node) =>
        /\ NodeSeq(l)' = RemoveAt(NodeSeq(l), IndexOf(NodeSeq(l), node))
        /\ ListSeq(l)' = RemoveAt(ListSeq(l), IndexOf(NodeSeq(l), node))
        /\ lists'[l].head = IF lists[l].head = node THEN mem[node].next ELSE lists[l].head
        /\ lists'[l].tail = IF lists[l].tail = node THEN mem[node].prev ELSE lists[l].tail
        /\ lists[l].len = 1 => (lists'[l].head = null /\ lists'[l].tail = null)
        /\ listLast'.hooked = <<mem[node].value>>
        /\ mem'[node] = FreeNode
        /\ lists'[l].len = lists[l].len - 1]_vars

\* a remove has left two nodes
C19_Witness ==
    /\ listLast.op = "remove"
    /\ Len(listLast.hooked) = 1
    /\ \E l \in DOMAIN lists : lists[l].len = 2

\* C20: insert_node(existing, value, after) puts one new node holding value
\* right after existing (after) or right before it (not after), keeps the
\* other nodes in order, makes the new node the tail when put after the tail
\* and the head when put before the head, and adds one to len.
C20_InsertNodeSplices ==
    [][\A l \in Lists, exist_node \in Nodes, value \in ListValues, after \in BOOLEAN :
        InsertNode(l, exist_node, value, after) =>
            LET i == IndexOf(NodeSeq(l), exist_node)
                at_new == IF after THEN i + 1 ELSE i
                node == NodeSeq(l)'[at_new]
            IN  /\ node \in FreeNodes(mem)
                /\ NodeSeq(l)' = InsertAt(NodeSeq(l), at_new, node)
                /\ ListSeq(l)' = InsertAt(ListSeq(l), at_new, value)
                /\ (after /\ lists[l].tail = exist_node) => lists'[l].tail = node
                /\ (~after /\ lists[l].head = exist_node) => lists'[l].head = node
                /\ lists'[l].head = NodeSeq(l)'[1]
                /\ lists'[l].tail = NodeSeq(l)'[lists[l].len + 1]
                /\ lists'[l].len = lists[l].len + 1]_vars

\* an insert_node has filled the node memory with one list
C20_Witness ==
    /\ listLast.op = "insert_node"
    /\ \E l \in DOMAIN lists : lists[l].len = MaxNodes

\* the list that a move_head_to_tail followed by a move_tail_to_head leaves
RotateThere(m, L) == move_head_to_tail(m, L)

RotateBack(m, L) == move_tail_to_head(RotateThere(m, L).mem, RotateThere(m, L).list)

\* C21: on a list of two or more nodes move_head_to_tail puts the head node
\* after the tail and move_tail_to_head puts the tail node before the head;
\* on a list of 0 or 1 nodes both change nothing; len and the set of
\* allocated nodes are unchanged; and move_head_to_tail followed by
\* move_tail_to_head restores the list.
C21_RotationMovesOneEnd ==
    [][\A l \in Lists :
        /\ MoveHeadToTail(l) =>
               /\ NodeSeq(l)' = IF Len(NodeSeq(l)) >= 2
                                 THEN Tail(NodeSeq(l)) \o <<Head(NodeSeq(l))>>
                                 ELSE NodeSeq(l)
               /\ rev_iter(mem, lists[l])' = Reverse(NodeSeq(l)')
               /\ [n \in Nodes |-> mem'[n].value] = [n \in Nodes |-> mem[n].value]
               /\ lists'[l].len = lists[l].len
               /\ FreeNodes(mem') = FreeNodes(mem)
               /\ listLast'.hooked = <<>>
               /\ (lists[l].len <= 1) => (mem' = mem /\ lists' = lists)
               /\ RotateBack(mem, lists[l]).mem = mem
               /\ RotateBack(mem, lists[l]).list = lists[l]
        /\ MoveTailToHead(l) =>
               /\ NodeSeq(l)' = IF Len(NodeSeq(l)) >= 2
                                 THEN <<NodeSeq(l)[Len(NodeSeq(l))]>>
                                          \o SubSeq(NodeSeq(l), 1, Len(NodeSeq(l)) - 1)
                                 ELSE NodeSeq(l)
               /\ rev_iter(mem, lists[l])' = Reverse(NodeSeq(l)')
               /\ [n \in Nodes |-> mem'[n].value] = [n \in Nodes |-> mem[n].value]
               /\ lists'[l].len = lists[l].len
               /\ FreeNodes(mem') = FreeNodes(mem)
               /\ listLast'.hooked = <<>>
               /\ (lists[l].len <= 1) => (mem' = mem /\ lists' = lists)]_vars

\* move_tail_to_head has acted on a list of MaxNodes nodes whose ends differ
C21_Witness ==
    /\ listLast.op = "move_tail_to_head"
    /\ \E l \in DOMAIN lists :
           /\ lists[l].len = MaxNodes
           /\ ListSeq(l)[1] # ListSeq(l)[MaxNodes]

\* a value no list holds
AbsentValue == 3

\* C22: search(value) returns the first node in head-to-tail order whose
\* value equals the argument and null exactly when no node holds an equal
\* value; it is a read of the list: its result is a function of the list and
\* the node memory alone.
C22_SearchFindsFirst ==
    \A l \in DOMAIN lists : \A value \in ListValues \cup {AbsentValue} :
        LET found == list_search(mem, lists[l], value)
            holders == { i \in 1..Len(NodeSeq(l)) : ListSeq(l)[i] = value }
        IN  /\ (found = null) <=> (holders = {})
            /\ (holders # {}) =>
                   found = NodeSeq(l)[CHOOSE i \in holders : \A j \in holders : i <= j]

\* a list holds the searched value in its second and its last node only
C22_Witness ==
    \E l \in DOMAIN lists :
        /\ lists[l].len = MaxNodes
        /\ ListSeq(l)[1] = 2
        /\ ListSeq(l)[2] = 1
        /\ ListSeq(l)[MaxNodes] = 1
        /\ list_search(mem, lists[l], 1) = NodeSeq(l)[2]
        /\ list_search(mem, lists[l], AbsentValue) = null

(***************************************************************************)
(* Integer set: reads by position, search, capacity.                       *)
(***************************************************************************)
\* the positions a caller may ask for: two below the array, the array, two
\* past it
Indexes == (-2)..(MaxSetLen + 1)

\* C23: get(index) returns the element stored at that position when
\* 0 <= index < len and None for every other index, negative ones and
\* index = len included; random() returns what get(0) returns, None on an
\* empty set.
C23_GetIsBoundsChecked ==
    /\ \A index \in Indexes :
           get(inner_ref, index) =
               IF 0 <= index /\ index < len(inner_ref)
               THEN { <<"Some", inner_ref.contents[index + 1]>> }
               ELSE { <<"None">> }
    /\ random(inner_ref) = get(inner_ref, 0)
    /\ (len(inner_ref) = 0) => random(inner_ref) = { <<"None">> }

\* the element width an insert of `value` leaves the set with
WidthWith(inner, value) ==
    IF value_encoding(value) > inner.encoding THEN byte_size(value_encoding(value))
    ELSE byte_size(inner.encoding)

\* insert(value) as either of its paths
InsertCall(value) == InsertUpgradeCall(value) \/ InsertFitCall(value)

\* C24: an insert of a value the set does not hold, ordinary or
\* upgrade-and-add, whose element storage (len + 1) times the resulting
\* element width would exceed the 16-bit capacity field ends in a panic; and
\* no set of a running program has len times element width above 65535.
C24_OversizeInsertPanics ==
    [][/\ \A value \in FullValues :
              (/\ InsertCall(value)
               /\ \A i \in 1..len(inner_ref) : inner_ref.contents[i] # value
               /\ (len(inner_ref) + 1) * WidthWith(inner_ref, value) > U16_MAX)
              => (fault' = "panic" /\ last'.result = "panic")
       /\ (fault = "none") => len(inner_ref) * byte_size(inner_ref.encoding) <= U16_MAX
       /\ (fault' = "none") => (len(inner_ref) * byte_size(inner_ref.encoding))' <= U16_MAX
      ]_vars

\* an ordinary insert into a full 64-bit set has panicked
C24_Witness ==
    /\ fault = "panic"
    /\ last.op = "insert"
    /\ block.encoding = INT64
    /\ block.len = FullLen
    /\ value_encoding(last.value) < INT64

\* the element array ascends strictly
Ascending(inner) ==
    \A i \in 1..(inner.len - 1) : Lt(inner.contents[i], inner.contents[i + 1])

\* the number of elements smaller than the value
Smaller(inner, value) == Cardinality({ i \in 1..inner.len : Lt(inner.contents[i], value) })

\* C26: over a sorted array the search returns (found, index of the value)
\* when the value is present and otherwise (not found, p) with p the number
\* of elements smaller than the value: 0 below the first element, len above
\* the last, the index of the first larger element in between.
C26_SearchGivesInsertionPosition ==
    Ascending(inner_ref) =>
        \A value \in SmallValues :
            search(inner_ref, value) =
                <<\E i \in 1..len(inner_ref) : inner_ref.contents[i] = value,
                  Smaller(inner_ref, value)>>

\* C27: after any sequence of inserts and removes the stored elements fit the
\* recorded capacity: len times the element width is at most alloc, so the
\* elements the calls have written, all below len, lie inside the block.
C27_ElementsFitCapacity ==
    (fault # "panic") =>
        len(inner_ref) * byte_size(inner_ref.encoding) <= inner_ref.alloc

\* an insert has filled a 64-bit set of MaxSetLen elements to its capacity
C27_Witness ==
    /\ last.op = "insert"
    /\ last.result = "true"
    /\ set = "heap"
    /\ block.encoding = INT64
    /\ block.len = MaxSetLen
    /\ block.alloc = MaxSetLen * byte_size(INT64)

(***************************************************************************)
(* Buffer: allocator failure, storage blocks, header widths.               *)
(***************************************************************************)
\* C25: when the allocator fails, try_from_slice returns to its caller with
\* no buffer and the process goes on, while from_slice, from_str and a push
\* that has to grow end the process.
C25_TryVariantReturnsOnFailure ==
    [][\A h \in Handles, bytes \in Pieces :
        /\ TryFromSliceFails(h, bytes) => (fault' = "none" /\ ~Live(h)')
        /\ FromSliceFails(h, bytes) => fault' = "panic"
        /\ PushFails(h, bytes) => fault' = "panic"]_vars

\* C28: every storage block is freed exactly once and never used after it
\* was freed, across from_slice, push, clear, clone, clone_from and drop: no
\* free of a free block, no live buffer whose block is free, every allocated
\* block is the block of exactly one live buffer, so that no block stays
\* allocated once every buffer has been dropped.
C28_BlocksFreedExactlyOnce ==
    /\ fault # "abort"
    /\ \A h \in Handles : ~Dangling(h)
    /\ \A b \in Blocks :
           (heap[b] # Free) => Cardinality({ h \in Handles : sds[h] = b }) = 1

\* a step in which a push to buffer h had to grow its storage.  Only a push
\* lengthens a buffer; a handle that is live before and after a step is bound
\* to the same buffer
Grew(h) ==
    /\ Live(h)
    /\ Live(h)'
    /\ sds_len(h)' > sds_len(h)
    /\ make_room_grows(hdr(h), sds_len(h)' - sds_len(h))

\* a step that constructs the buffer of handle h (from_slice, from_str, clone)
Constructed(h) == ~Live(h) /\ Live(h)'

\* header type t has fields wide enough for n
Fits(t, n) ==
    \/ t = SDS_TYPE_8 /\ n < 256
    \/ t = SDS_TYPE_16 /\ n < 65536
    \/ t = SDS_TYPE_32 /\ n \div 65536 < 65536
    \/ t = SDS_TYPE_64

Narrowest(n) ==
    CHOOSE t \in SDS_TYPE_8..SDS_TYPE_64 :
        Fits(t, n) /\ \A u \in SDS_TYPE_8..SDS_TYPE_64 : Fits(u, n) => t <= u

\* C29: across the pushes and clears of one buffer its header type never
\* becomes narrower, also when a push reallocates after a clear has set the
\* length to 0.
C29_HeaderOnlyWidens ==
    [][\A h \in Handles :
        (Live(h) /\ Live(h)') => type_code(h)' >= type_code(h)]_vars

\* a buffer that was built with a 16-bit header holds fewer than 256 bytes
C29_Witness ==
    \E h \in Handles :
        /\ Live(h)
        /\ type_code(h) = SDS_TYPE_16
        /\ sds_len(h) > 0
        /\ sds_len(h) < 256

\* C30 as stated: right after every construction and every growth of a
\* buffer its header is the narrowest one able to represent the buffer's
\* length.
C30_NarrowestForLength ==
    [][\A h \in Handles :
        (Constructed(h) \/ Grew(h)) => type_code(h)' = Narrowest(sds_len(h)')]_vars

\* C30 as amended: right after a construction the header is the narrowest one
\* able to represent the buffer's length; right after a growth it is the
\* narrowest one able to represent the capacity asked for (twice the new
\* length below 1 MiB, the new length plus 1 MiB from there on), which is
\* wide enough for the length.
C30_NarrowestForRequest ==
    [][\A h \in Handles :
        /\ Constructed(h) => type_code(h)' = Narrowest(sds_len(h)')
        /\ Grew(h) =>
               /\ type_code(h)' =
                      Narrowest(make_room_new_len(hdr(h), sds_len(h)' - sds_len(h)))
               /\ Fits(type_code(h)', sds_len(h)')]_vars

\* a growth has left a 32-bit header on a buffer shorter than 65536 bytes
C30_Witness ==
    \E h \in Handles :
        /\ Live(h)
        /\ type_code(h) = SDS_TYPE_32
        /\ sds_len(h) < 65536
        /\ sds_len(h) = BLen(expect[h])

\* the payload capacity a growing append of `added` bytes asks for
Requested(length, added) ==
    IF length + added < SDS_MAX_PRE_ALLOC THEN 2 * (length + added)
    ELSE length + added + SDS_MAX_PRE_ALLOC

\* the capacities a block of header type t asked for with payload capacity
\* `asked` may record, after malloc or after realloc
Recorded(asked, t) ==
    { min_type_max_size(usable - sds_hdr_size(t), t) :
          usable \in z_malloc_usable(asked + sds_hdr_size(t))
                         \cup { z_realloc_usable(asked + sds_hdr_size(t)) } }

\* C31: an append of `added` bytes to a buffer whose slack alloc - len is at
\* least `added` allocates nothing and leaves the capacity unchanged;
\* otherwise the payload capacity asked for is 2 * (len + added) when
\* len + added is below 1 MiB and len + added + 1 MiB when it is not, and the
\* capacity after the append is at least len + added.
C31_GrowthPolicy ==
    [][\A h \in Handles :
        (Live(h) /\ Live(h)' /\ sds_len(h)' > sds_len(h)) =>
            LET added == sds_len(h)' - sds_len(h)
            IN  IF sds_alloc(h) - sds_len(h) >= added
                THEN /\ sds'[h] = sds[h]
                     /\ sds_alloc(h)' = sds_alloc(h)
                     /\ \A b \in Blocks : (heap[b] = Free) <=> (heap'[b] = Free)
                ELSE /\ sds_alloc(h)' \in
                            Recorded(Requested(sds_len(h), added), type_code(h)')
                     /\ sds_alloc(h)' >= sds_len(h) + added]_vars

\* a push has grown a buffer of 1 MiB or more: its capacity is 1 MiB or more
\* above its length
C31_Witness ==
    \E h \in Handles :
        /\ Live(h)
        /\ sds_len(h) >= SDS_MAX_PRE_ALLOC
        /\ sds_alloc(h) >= sds_len(h) + SDS_MAX_PRE_ALLOC

\* the usable size the allocator's block really has for a request of `size`
\* bytes: malloc_usable_size where the build can ask for it, else the request
ActualUsable(size) ==
    IF target_os = "linux_or_macos" THEN GlibcUsable(size) ELSE size

\* the capacity a block of header type t holds when its request was `total`
CapacityOf(total, t) ==
    min_type_max_size(ActualUsable(total) - sds_hdr_size(t), t)

\* C32: after every construction of a buffer and after every growth, by a
\* fresh allocation or by a reallocation in place, the capacity field is the
\* allocator's actual usable size of the block minus the header size, clamped
\* to the greatest value the header width represents.
C32_CapacityIsUsableSize ==
    [][\A h \in Handles :
        /\ (Constructed(h) /\ sds'[h] \in Blocks) =>
               sds_alloc(h)' =
                   CapacityOf(sds_len(h)' + sds_hdr_size(type_code(h)'),
                              type_code(h)')
        /\ Grew(h) =>
               sds_alloc(h)' =
                   CapacityOf(Requested(sds_len(h), sds_len(h)' - sds_len(h))
                                  + sds_hdr_size(type_code(h)'),
                              type_code(h)')]_vars

\* no value sits at two indices of the set
NoValueTwice(inner) ==
    \A i, j \in 1..inner.len : i # j => inner.contents[i] # inner.contents[j]

\* the values contain() answers true for
Members(inner) == { v \in SmallValues : contain(inner, v) }

\* C33: after any sequence of inserts and removes no value appears at two
\* indices, and len() is the number of inserts that returned true minus the
\* number of removes that returned true (each such call moves it by one,
\* every other call leaves it), which is the number of distinct values v
\* with contain(v) true.
C33_LenCountsMembers ==
    [][/\ NoValueTwice(inner_ref)'
       /\ len(inner_ref)' = Cardinality(Members(inner_ref))'
       /\ last'.op = "insert" =>
              len(inner_ref)' = len(inner_ref) + (IF last'.result = "true" THEN 1 ELSE 0)
       /\ last'.op = "remove" =>
              len(inner_ref)' = len(inner_ref) - (IF last'.result = "true" THEN 1 ELSE 0)
       /\ last'.op = "new" => len(inner_ref)' = 0]_vars

\* the indexes get is called with: in range from either end, and beyond
GetIndexes == (-(MaxNodes + 2))..(MaxNodes + 2)

\* C34: get(index) stops, for every list and every index, positive, negative
\* or out of range, after following at most len links.
C34_GetFollowsAtMostLenLinks ==
    \A l \in DOMAIN lists : \A index \in GetIndexes :
        list_get_links(mem, lists[l], index) <= lists[l].len

\* a full list: get(0) and get(-1) follow no link, get(1) and get(-2) walk
\* the whole list, and so does an index out of range
C34_Witness ==
    \E l \in DOMAIN lists :
        /\ lists[l].len = MaxNodes
        /\ list_get_links(mem, lists[l], 0) = 0
        /\ list_get_links(mem, lists[l], -1) = 0
        /\ list_get_links(mem, lists[l], 1) = MaxNodes
        /\ list_get_links(mem, lists[l], -2) = MaxNodes
        /\ list_get_links(mem, lists[l], MaxNodes + 2) = MaxNodes

====
